---- MODULE Spec2Model ----
(***************************************************************************)
(* Saarthi / Sahayak: the tracking, distress-detection and alert-ledger    *)
(* servers.                                                                *)
(*                                                                         *)
(* Two server programs are modelled.  The police-portal server             *)
(* (src/unnamed/part_004) keeps cabState, movementHistory, traceChain,     *)
(* alertBuffer and lastAlertHash.current; the unified server               *)
(* (src/server/server.js, src/unnamed/part_003) keeps alertLog and its own *)
(* lastAlertHash.  Node runs every handler to completion, so each handler  *)
(* is one atomic action.  Date.now() is read once per handler.             *)
(*                                                                         *)
(* The browser side is modelled too: the cabs Map of a connected           *)
(* PoliceDashboard, which applies the events a handler sends it in         *)
(* delivery order; the shared socket of lib/socket.ts with its reference   *)
(* count; and the trip kept by CabPage in memory and in localStorage.      *)
(* isInsideCorridor (turf) is an input of pushCoord.                       *)
(*                                                                         *)
(* server/crypto.js and server/geo.js are not part of the sources at hand: *)
(* the digest is modelled as an ideal (injective) hash, a signature as the *)
(* triple of key and signed payload, and the station registry as three     *)
(* stations with a 2 km radius.  Distances and bearings between the        *)
(* sample points are tabulated from the haversine and bearing formulas.    *)
(***************************************************************************)
EXTENDS Integers, Sequences, FiniteSets, TLC

VARIABLES
  now,              \* Date.now(), in ms since local midnight
  cabState,         \* Map cabId -> state record, NoState when absent
  movementHistory,  \* Map cabId -> array of {p, ts}
  traceChain,       \* Map cabId -> array of trace entries
  alertBuffer,      \* portal server: array of alert records
  lastAlertHash,    \* portal server: lastAlertHash.current
  alertLog,         \* unified server: array of alert records
  unifiedLastAlertHash, \* unified server: lastAlertHash
  outbox,           \* events emitted by the handler that ran last
  req,              \* the request the last handler served
  resp,             \* the HTTP status the last handler answered (0: none)
  steps,            \* number of handlers run so far
  mapKeys,          \* the keys of the Maps cabState and traceChain, in
                    \* insertion order (the order entries() iterates in)
  socketRooms,      \* socket -> the rooms it has joined
  dashCabs,         \* connected dashboard -> the keys of its cabs Map
  socket,           \* lib/socket.ts: the shared socket, NO_SOCKET when null
  refCount,         \* lib/socket.ts: refCount
  connections,      \* the socket.io connections of the browser that are open
  listeners,        \* the events the shared socket has listeners for
  managerUser,      \* is a component holding the socket through socketManager
  policeDashboard,  \* PoliceDashboard: mounted, selectedStation
  cabPage,          \* CabPage: mounted, tripRef.current, alertEmittedRef.current,
                    \* corridorRef.current, keyPairRef.current
  savedTrip,        \* localStorage "sahayak_trip"
  emitted           \* the events the browser has emitted, in order

vars == <<now, cabState, movementHistory, traceChain, alertBuffer,
          lastAlertHash, alertLog, unifiedLastAlertHash, outbox, req, resp,
          steps, mapKeys, socketRooms, dashCabs, socket, refCount,
          connections, listeners, managerUser, policeDashboard, cabPage,
          savedTrip, emitted>>

browserVars == <<socket, refCount, connections, listeners, managerUser,
                 policeDashboard, cabPage, savedTrip, emitted>>

serverVars == <<cabState, movementHistory, traceChain, alertBuffer,
                lastAlertHash, alertLog, unifiedLastAlertHash, mapKeys,
                socketRooms, dashCabs>>

\* ------------------------------------------------------------------ bounds

MaxSteps == 5

MaxLedgerSteps == 7

MaxUnifiedSteps == 3

MaxHistorySteps == 22

FreeSamples == 3

MaxStopSteps == 3

MaxIsolatedSteps == 5

MaxRiskLen == 3

MaxJoinSteps == 4

\* ------------------------------------------------------------------ helpers

Last(s) == s[Len(s)]

LastN(s, n) == IF Len(s) <= n THEN s ELSE SubSeq(s, Len(s) - n + 1, Len(s))

Abs(x) == IF x < 0 THEN -x ELSE x

Min(a, b) == IF a < b THEN a ELSE b

Max(a, b) == IF a > b THEN a ELSE b

\* JavaScript object spread {...a, ...b}: the keys of b win
Spread(a, b) ==
  [k \in (DOMAIN a) \cup (DOMAIN b) |-> IF k \in DOMAIN b THEN b[k] ELSE a[k]]

\* ------------------------------------------------------------------ geography

Cabs == {"cab1", "cab2"}

\* geo.getStations(): id, name and the rank that breaks distance ties
Stations == {"S1", "S2", "S3"}

StationIndex(s) == IF s = "S1" THEN 1 ELSE IF s = "S2" THEN 2 ELSE 3

StationName(s) ==
  IF s = "S1" THEN "MG Road"
  ELSE IF s = "S2" THEN "Koramangala" ELSE "Electronic City"

\* The sample points a cab can report, in micro-degrees:
\*   1: the centre of S1            2: the centre of S2
\*   3: owned by S1, 2.8 km out     4, 5: 11 m apart on the Mysuru outskirts,
\*                                        owned by S3 from 126 km away
\* (the centre of S3 is at 12.850, 77.665)
Points == 1..5

Lat == <<12975000, 12925000, 13000000, 12300000, 12300000>>

Lon == <<77605000, 77620000, 77600000, 76650000, 76650100>>

\* geo.haversineDistance between two sample points, in metres
DistM ==
  <<<<0, 5792, 2832, 127946, 127937>>,
    <<5792, 0, 8617, 126129, 126120>>,
    <<2832, 8617, 0, 129159, 129150>>,
    <<127946, 126129, 129159, 0, 11>>,
    <<127937, 126120, 129150, 11, 0>>>>

haversineDistance(p, q) == DistM[p][q]

\* bearing() from p to q, in tenths of a degree
BearingDeci ==
  <<<<0, 1637, -110, -1258, -1258>>,
    <<-163, 0, -146, -1233, -1233>>,
    <<1690, 1654, 0, -1270, -1270>>,
    <<540, 565, 528, 0, 900>>,
    <<540, 565, 528, -900, 0>>>>

bearing(p, q) == BearingDeci[p][q]

\* haversine distance from a sample point to each station's centre, in metres
StationDistM ==
  <<<<0, 5792, 15345>>,
    <<5792, 0, 9661>>,
    <<2832, 8617, 18106>>,
    <<127946, 126129, 125993>>,
    <<127937, 126120, 125984>>>>

STATION_RADIUS_M == 2000

\* geo.getOwningStation: the nearest station (lowest id on a tie), annotated
\* with whether the point lies within its radius
getOwningStation(p) ==
  LET best == CHOOSE s \in Stations :
                \A o \in Stations :
                  \/ StationDistM[p][StationIndex(s)] < StationDistM[p][StationIndex(o)]
                  \/ /\ StationDistM[p][StationIndex(s)] = StationDistM[p][StationIndex(o)]
                     /\ StationIndex(s) <= StationIndex(o)
  IN [id |-> best, name |-> StationName(best),
      insideRadius |-> StationDistM[p][StationIndex(best)] <= STATION_RADIUS_M]

\* distanceFromMainRoad: distance to the nearest MAIN_ROADS midpoint, metres
RoadDistM == <<542, 0, 2780, 125977, 125968>>

distanceFromMainRoad(p) == RoadDistM[p]

\* ISOLATED_ZONES, as [latMin, latMax, lonMin, lonMax] in micro-degrees
ISOLATED_ZONES ==
  { <<12260000, 12280000, 76660000, 76680000>>,
    <<12100000, 12350000, 76550000, 76750000>> }

\* only the first of the ISOLATED_ZONES looked at
isInIsolatedZoneFirstOnly(p) ==
  /\ Lat[p] >= 12260000 /\ Lat[p] <= 12280000
  /\ Lon[p] >= 76660000 /\ Lon[p] <= 76680000

isInIsolatedZone(p) ==
  \E z \in ISOLATED_ZONES :
    Lat[p] >= z[1] /\ Lat[p] <= z[2] /\ Lon[p] >= z[3] /\ Lon[p] <= z[4]

\* The owning station of the point predictNextStation projects 90 s ahead of
\* `last` along the bearing prev -> last at the speed of the last leg (gaps
\* of whole seconds).  The projection leaves the station of `last` only on
\* five legs, and only while the leg took at most the tabulated time.
ProjectedStation(prev, last, dtMs) ==
  LET cur == getOwningStation(last).id
      leg == <<prev, last>>
  IN IF leg = <<1, 2>> THEN (IF dtMs <= 104000 THEN "S3" ELSE cur)
     ELSE IF leg = <<3, 1>> THEN (IF dtMs <= 23000 THEN "S3"
                                  ELSE IF dtMs <= 87000 THEN "S2" ELSE cur)
     ELSE IF leg = <<3, 2>> THEN (IF dtMs <= 154000 THEN "S3" ELSE cur)
     ELSE IF leg = <<4, 2>> THEN (IF dtMs <= 1161000 THEN "S1" ELSE cur)
     ELSE IF leg = <<5, 2>> THEN (IF dtMs <= 1162000 THEN "S1" ELSE cur)
     ELSE cur

\* ------------------------------------------------------------------ crypto

\* crypto.sha256(obj): an ideal digest, a distinct value for every input
sha256(obj) == <<"sha256", obj>>

\* the genesis value "0" of both chains
GENESIS == <<"0">>

\* a null hash field of a trace entry under construction
NULL == <<>>

\* the empty signature "" (falsy in JavaScript)
NO_SIGNATURE == <<>>

SERVER_KEY == "serverKey"

CAB_KEY == "cabKey"

\* lib/crypto signPayload(privateKey, payload): an RSA signature, modelled as
\* the pair of the signing key and the signed payload
signPayload(key, payload) == <<key, payload>>

\* lib/crypto verifyPayload(publicKey, payload, signature)
verifyPayload(key, payload, signature) == signature = signPayload(key, payload)

\* crypto.signEmergencyPayload(payload): signs with the server's private key
signEmergencyPayload(payload) == signPayload(SERVER_KEY, payload)

\* crypto.verifySignature(payload, signature): takes no key, so it can only
\* check against the server's own key pair (getPublicKeyPem)
verifySignature(payload, signature) == verifyPayload(SERVER_KEY, payload, signature)

\* crypto.generateTripToken({cabId, lat, lon})
generateTripToken(cabId, p) == <<"trip", cabId, Lat[p], Lon[p]>>

\* ------------------------------------------------------------------ intelligence.js

STOP_THRESHOLD_MINUTES == 3

ROUTE_DEVIATION_THRESHOLD_PCT == 40

RISK_CRITICAL_THRESHOLD == 75

HOP_ABNORMAL_COUNT == 3

HOP_ABNORMAL_WINDOW_MS == 120000

PREDICTION_HORIZON_SEC == 90

\* new Date().getHours(), the clock counting ms from local midnight
getHours(t) == (t \div 3600000) % 24

timeOfDayRisk(t) ==
  LET h == getHours(t)
  IN IF h >= 22 \/ h <= 5 THEN 25
     ELSE IF h >= 21 \/ h <= 6 THEN 15
     ELSE 0

\* the summed length of the legs of a history, in metres
RECURSIVE actualDist(_)
actualDist(history) ==
  IF Len(history) < 2 THEN 0
  ELSE haversineDistance(history[1].p, history[2].p) + actualDist(Tail(history))

\* Math.round(Math.min(30, deviationPct) * (0.25 * 100 / 30)) for
\* deviationPct = max(0, (actual - straight) / straight * 100)
deviationScore(history) ==
  LET straight == haversineDistance(history[1].p, Last(history).p)
      excess == Max(0, actualDist(history) - straight)
  IN IF straight = 0 THEN 0
     ELSE IF excess * 100 >= 30 * straight THEN 25
     ELSE (500 * excess + 3 * straight) \div (6 * straight)

\* sudden stops and zig-zag over the last five samples
speedScore(history) ==
  LET recent == LastN(history, 5)
      n == Len(recent)
      stops == {i \in 2..n :
                  /\ recent[i].ts - recent[i - 1].ts > 60000
                  /\ haversineDistance(recent[i - 1].p, recent[i].p) < 50}
      zigzags == {i \in 3..n :
                  Abs(bearing(recent[i - 1].p, recent[i].p)
                      - bearing(recent[i - 2].p, recent[i - 1].p)) > 900}
  IN Min(25, 15 * Cardinality(stops) + 8 * Cardinality(zigzags))

\* computeRiskScore adding the time-of-day score without its weight
computeRiskScoreUnweightedTime(history, t) ==
  LET tod == timeOfDayRisk(t)
      dev == IF Len(history) >= 3 THEN deviationScore(history) ELSE 0
      speed == IF Len(history) >= 3 THEN speedScore(history) ELSE 0
      road == IF Len(history) = 0 THEN 0
              ELSE IF distanceFromMainRoad(Last(history).p) > 5000 THEN 15
              ELSE IF distanceFromMainRoad(Last(history).p) > 2000 THEN 8
              ELSE 0
      isolated == IF Len(history) > 0 /\ isInIsolatedZone(Last(history).p)
                  THEN 20 ELSE 0
  IN Min(100, tod + dev + speed + road + isolated)

\* computeRiskScore(cabId, movementHistory, traceChain), history being the
\* cab's movement history and t the clock.  The time-of-day score is weighted
\* by 0.2; the deviation score is the only fractional summand, so rounding
\* the sum rounds that summand.
computeRiskScore(history, t) ==
  LET tod == timeOfDayRisk(t) \div 5
      dev == IF Len(history) >= 3 THEN deviationScore(history) ELSE 0
      speed == IF Len(history) >= 3 THEN speedScore(history) ELSE 0
      road == IF Len(history) = 0 THEN 0
              ELSE IF distanceFromMainRoad(Last(history).p) > 5000 THEN 15
              ELSE IF distanceFromMainRoad(Last(history).p) > 2000 THEN 8
              ELSE 0
      isolated == IF Len(history) > 0 /\ isInIsolatedZone(Last(history).p)
                  THEN 20 ELSE 0
  IN Min(100, tod + dev + speed + road + isolated)

\* predictNextStation(cabId, movementHistory, stations): a station id or NONE
NONE == "none"

\* predictNextStation returning the projected point's zone even when it is
\* the current one
predictNextStationUnfiltered(history) ==
  IF Len(history) < 2 THEN NONE
  ELSE LET last == Last(history)
           prev == history[Len(history) - 1]
           dt == last.ts - prev.ts
       IN IF dt <= 0 THEN NONE
          ELSE ProjectedStation(prev.p, last.p, dt)

predictNextStation(history) ==
  IF Len(history) < 2 THEN NONE
  ELSE LET last == Last(history)
           prev == history[Len(history) - 1]
           dt == last.ts - prev.ts
       IN IF dt <= 0 THEN NONE
          ELSE LET current == getOwningStation(last.p).id
                   predicted == ProjectedStation(prev.p, last.p, dt)
               IN IF predicted # current THEN predicted ELSE NONE

\* checkSilentDistress line 178 counting every entry of the chain, old or new
recentTraceCountAll(trace, t) == Len(trace)

\* checkSilentDistress line 178: recentTraces.length, the entries of the
\* chain less than HOP_ABNORMAL_WINDOW_MS old
recentTraceCount(trace, t) ==
  Cardinality({i \in 1..Len(trace) :
                 t - trace[i].timestamp < HOP_ABNORMAL_WINDOW_MS})

\* checkSilentDistress(cabId, movementHistory, traceChain, riskScore): the
\* triggers in the order they are pushed; t is Date.now() at the evaluation
checkSilentDistress(history, trace, riskScore, t) ==
  LET n == Len(history)
      critical == IF riskScore >= RISK_CRITICAL_THRESHOLD
                  THEN <<"RISK_CRITICAL">> ELSE <<>>
      stopped ==
        IF /\ n >= 2
           /\ t - history[n].ts > STOP_THRESHOLD_MINUTES * 60 * 1000
           /\ haversineDistance(history[n - 1].p, history[n].p) < 50
        THEN <<"STOPPED_EXTENDED">> ELSE <<>>
      straight == haversineDistance(history[1].p, history[n].p)
      deviation ==
        IF /\ n >= 2
           /\ straight > 0
           /\ (actualDist(history) - straight) * 100
                > ROUTE_DEVIATION_THRESHOLD_PCT * straight
        THEN <<"ROUTE_DEVIATION">> ELSE <<>>
      hopping == IF recentTraceCount(trace, t) >= HOP_ABNORMAL_COUNT
                 THEN <<"ABNORMAL_HOPPING">> ELSE <<>>
      recent == LastN(history, 4)
      stopStarts == {i \in 2..Len(recent) :
                       haversineDistance(recent[i - 1].p, recent[i].p) < 20}
      isolated ==
        IF /\ n >= 4
           /\ Cardinality(stopStarts) >= 2
           /\ isInIsolatedZone(history[n].p)
        THEN <<"STOP_START_ISOLATED">> ELSE <<>>
  IN critical \o stopped \o deviation \o hopping \o isolated

\* buildTraceEntry(stationId, stationName)
buildTraceEntry(stationId, stationName, t) ==
  [stationId |-> stationId, stationName |-> stationName, timestamp |-> t,
   prevHash |-> NULL, hash |-> NULL]

\* chainTrace linking every entry to the first entry instead of the last
chainTraceFromFirst(chain, entry) ==
  LET prevHash == IF Len(chain) > 0 THEN chain[1].hash ELSE GENESIS
      payload == [entry EXCEPT !.prevHash = prevHash]
  IN Append(chain, [payload EXCEPT !.hash = sha256(payload)])

\* chainTrace starting from an empty array instead of the cab's stored chain
chainTraceFresh(chain, entry) ==
  LET payload == [entry EXCEPT !.prevHash = GENESIS]
  IN <<[payload EXCEPT !.hash = sha256(payload)]>>

\* chainTrace(traceChain, cabId, entry), chain being traceChain.get(cabId) or
\* the empty array: the chain with the linked and hashed entry pushed
chainTrace(chain, entry) ==
  LET prevHash == IF Len(chain) > 0 THEN Last(chain).hash ELSE GENESIS
      payload == [entry EXCEPT !.prevHash = prevHash]
  IN Append(chain, [payload EXCEPT !.hash = sha256(payload)])

\* ------------------------------------------------------------------ portal server

HISTORY_LIMIT == 20

\* cabState.get(cabId) of a cab never seen
NO_STATE == [absent |-> TRUE]

ALL == <<"all">>

Room(stationId) == <<"station", stationId>>

Emit(to, ev, data) == [to |-> to, ev |-> ev, data |-> data]

To(sock) == <<"socket", sock>>

\* PoliceDashboard, onStationCabs / onCabUpdate / onCabLeft: the keys of the
\* dashboard's cabs Map after one event
applyEvent(cabs, m) ==
  IF m.ev = "station_cabs" THEN {m.data[i].id : i \in 1..Len(m.data)}
  ELSE IF m.ev = "cab_update" THEN cabs \cup {m.data.cabId}
  ELSE IF m.ev = "cab_left" THEN cabs \ {m.data.cabId}
  ELSE cabs

RECURSIVE applyEvents(_, _)
applyEvents(cabs, box) ==
  IF box = <<>> THEN cabs
  ELSE applyEvents(applyEvent(cabs, Head(box)), Tail(box))

\* the events of an outbox that socket.io delivers to a socket in the given
\* rooms, in emission order: io.emit, socket.emit and io.to(room).emit
receivedBy(sock, box, rooms) ==
  LET mine(m) == IF m.to = ALL THEN TRUE
                 ELSE IF m.to = To(sock) THEN TRUE
                 ELSE m.to \in rooms
  IN SelectSeq(box, mine)

\* every connected dashboard applies what the handler that just ran sent it
DashboardsApply ==
  dashCabs' = [sock \in DOMAIN dashCabs |->
                 applyEvents(dashCabs[sock],
                             receivedBy(sock, outbox', socketRooms'[sock]))]

\* An alert record holds its traceChain by reference: the array the cab's
\* trace is kept in, which chainTrace later pushes to.  AlertContent is the
\* record as it reads (is serialised) while the chains are `chains`.
AlertContent(alert, chains) ==
  IF "traceChain" \in DOMAIN alert /\ "ref" \in DOMAIN alert.traceChain
  THEN [alert EXCEPT !.traceChain = chains[alert.traceChain.ref]]
  ELSE alert

\* createAndStoreAlert that forgets to advance lastAlertHash.current
createAndStoreAlertStaleTail(payload, source, t, rnd, buffer, tail, chains) ==
  LET fields == Spread(Spread([id |-> <<t, rnd>>], payload),
                       [source |-> source, prevHash |-> tail, timestamp |-> t])
      hashed == Spread(fields, [hash |-> sha256(AlertContent(fields, chains))])
      alert == Spread(hashed,
                 [signature |-> signEmergencyPayload(AlertContent(hashed, chains))])
  IN [alert |-> alert, buffer |-> Append(buffer, alert), tail |-> tail]

\* createAndStoreAlert that overwrites the last record instead of pushing
createAndStoreAlertOverwrite(payload, source, t, rnd, buffer, tail, chains) ==
  LET fields == Spread(Spread([id |-> <<t, rnd>>], payload),
                       [source |-> source, prevHash |-> tail, timestamp |-> t])
      hashed == Spread(fields, [hash |-> sha256(AlertContent(fields, chains))])
      alert == Spread(hashed,
                 [signature |-> signEmergencyPayload(AlertContent(hashed, chains))])
  IN [alert |-> alert,
      buffer |-> IF Len(buffer) = 0 THEN <<alert>>
                 ELSE [buffer EXCEPT ![Len(buffer)] = alert],
      tail |-> alert.hash]

\* createAndStoreAlert spreading the payload after the server's own fields
createAndStoreAlertPayloadLast(payload, source, t, rnd, buffer, tail, chains) ==
  LET fields == Spread([id |-> <<t, rnd>>, source |-> source,
                        prevHash |-> tail, timestamp |-> t], payload)
      hashed == Spread(fields, [hash |-> sha256(AlertContent(fields, chains))])
      alert == Spread(hashed,
                 [signature |-> signEmergencyPayload(AlertContent(hashed, chains))])
  IN [alert |-> alert, buffer |-> Append(buffer, alert), tail |-> alert.hash]

\* createAndStoreAlert folding a detector alert into the record before it
\* when that one is of the same cab with the same triggers
createAndStoreAlertCoalescing(payload, source, t, rnd, buffer, tail, chains) ==
  LET fields == Spread(Spread([id |-> <<t, rnd>>], payload),
                       [source |-> source, prevHash |-> tail, timestamp |-> t])
      hashed == Spread(fields, [hash |-> sha256(AlertContent(fields, chains))])
      alert == Spread(hashed,
                 [signature |-> signEmergencyPayload(AlertContent(hashed, chains))])
      repeated == IF source = "AUTO" /\ Len(buffer) > 0
                  THEN /\ Last(buffer).source = "AUTO"
                       /\ Last(buffer).cabId = payload.cabId
                       /\ Last(buffer).triggers = payload.triggers
                  ELSE FALSE
  IN IF repeated THEN [alert |-> Last(buffer), buffer |-> buffer, tail |-> tail]
     ELSE [alert |-> alert, buffer |-> Append(buffer, alert), tail |-> alert.hash]

\* createAndStoreAlert(payload, source) with t = Date.now() and rnd the
\* random suffix, on the buffer and tail given: the alert made, the buffer
\* and the tail after it
createAndStoreAlert(payload, source, t, rnd, buffer, tail, chains) ==
  LET fields == Spread(Spread([id |-> <<t, rnd>>], payload),
                       [source |-> source, prevHash |-> tail, timestamp |-> t])
      hashed == Spread(fields, [hash |-> sha256(AlertContent(fields, chains))])
      alert == Spread(hashed,
                 [signature |-> signEmergencyPayload(AlertContent(hashed, chains))])
  IN [alert |-> alert, buffer |-> Append(buffer, alert), tail |-> alert.hash]

\* the signature check skipped
signatureValidUnchecked(payload, signature) == TRUE

\* POST /api/emergency, lines 53-56: the signature checked is the submitted
\* one, or the server's own over the payload when none was submitted
signatureValid(payload, signature) ==
  LET sigToVerify == IF signature # NO_SIGNATURE THEN signature
                     ELSE signEmergencyPayload(payload)
  IN verifySignature(payload, sigToVerify)

\* POST /api/emergency
PostEmergency(body, dt, rnd) ==
  LET t == now + dt IN
  /\ steps' = steps + 1
  /\ now' = t
  /\ req' = [op |-> "POST /api/emergency", body |-> body]
  /\ IF ~signatureValid(body.payload, body.signature)
     THEN /\ resp' = 401
          /\ outbox' = <<>>
          /\ UNCHANGED <<alertBuffer, lastAlertHash>>
     ELSE LET made == createAndStoreAlert(body.payload, "MANUAL", t, rnd,
                                          alertBuffer, lastAlertHash, traceChain)
          IN /\ alertBuffer' = made.buffer
             /\ lastAlertHash' = made.tail
             /\ outbox' = <<Emit(ALL, "emergency_alert",
                                 AlertContent(made.alert, traceChain))>>
             /\ resp' = 200
  /\ UNCHANGED <<cabState, movementHistory, traceChain, alertLog,
                 unifiedLastAlertHash, mapKeys, socketRooms>>
  /\ DashboardsApply
  /\ UNCHANGED browserVars

\* the sample pushed without the slice(-20)
pushSampleNoTrim(hist, p, t) == Append(hist, [p |-> p, ts |-> t])

\* the sample pushed over the newest stored one once the history is full
pushSampleEvictNewest(hist, p, t) ==
  IF Len(hist) >= HISTORY_LIMIT
  THEN Append(SubSeq(hist, 1, HISTORY_LIMIT - 1), [p |-> p, ts |-> t])
  ELSE Append(hist, [p |-> p, ts |-> t])

\* cab_position, lines 126-130: push the sample, keep the last 20
pushSample(hist, p, t) == LastN(Append(hist, [p |-> p, ts |-> t]), HISTORY_LIMIT)

\* the token minted anew at every sample
tripTokenReminted(prevState, cabId, p) == generateTripToken(cabId, p)

\* cab_position, line 136: the stored token, or a new one for a cab without
\* state
tripTokenFor(prevState, cabId, p) ==
  IF prevState # NO_STATE THEN prevState.tripToken
  ELSE generateTripToken(cabId, p)

\* newState raising the flag from the risk score instead of starting it false
newCabStateFlaggedAtRisk(p, station, tripToken, t, riskScore, predictedNext) ==
  [lat |-> Lat[p], lon |-> Lon[p],
   stationId |-> station.id, stationName |-> station.name,
   tripToken |-> tripToken, insideRadius |-> station.insideRadius,
   lastUpdate |-> t, riskScore |-> riskScore,
   predictedNextStationId |-> predictedNext,
   predictedNextStationName |->
     IF predictedNext # NONE THEN StationName(predictedNext) ELSE NONE,
   isAlert |-> riskScore > 0]

\* cab_position, lines 141-153
newCabState(p, station, tripToken, t, riskScore, predictedNext) ==
  [lat |-> Lat[p], lon |-> Lon[p],
   stationId |-> station.id, stationName |-> station.name,
   tripToken |-> tripToken, insideRadius |-> station.insideRadius,
   lastUpdate |-> t, riskScore |-> riskScore,
   predictedNextStationId |-> predictedNext,
   predictedNextStationName |->
     IF predictedNext # NONE THEN StationName(predictedNext) ELSE NONE,
   isAlert |-> FALSE]

\* cab_position, lines 155 and 162: does this sample append a trace entry
\* the zone change noticed only when the cab is inside the new zone's radius
zoneChangedInsideOnly(prevState, station) ==
  prevState # NO_STATE /\ prevState.stationId # station.id /\ station.insideRadius

\* every sample of a cab with state taken for a zone change
zoneChangedAlways(prevState, station) ==
  prevState # NO_STATE

zoneChanged(prevState, station) ==
  prevState # NO_STATE /\ prevState.stationId # station.id

\* the first observation appending wherever the cab is
firstInsideAnywhere(prevState, station) ==
  prevState = NO_STATE

firstInside(prevState, station) ==
  prevState = NO_STATE /\ station.insideRadius

\* the severity ladder testing the HIGH threshold before the CRITICAL one
severityOfHighFirst(riskScore) ==
  IF riskScore >= 50 THEN "HIGH"
  ELSE IF riskScore >= 75 THEN "CRITICAL" ELSE "MEDIUM"

\* cab_position, line 193: the severity of a detector alert
severityOf(riskScore) ==
  IF riskScore >= 75 THEN "CRITICAL"
  ELSE IF riskScore >= 50 THEN "HIGH" ELSE "MEDIUM"

\* the routine update sent with io.emit
routineUpdateToAll(station, update) ==
  << Emit(ALL, "cab_update", update) >>

\* cab_position, line 199: without triggers, the state goes to the room of
\* the owning station
routineUpdate(station, update) ==
  << Emit(Room(station.id), "cab_update", update) >>

\* cabState.set and traceChain.set: a key is added to a Map, at the end,
\* when it is set for the first time
keysAfterSet(cabId, prevState, appends) ==
  [cabState |-> IF prevState = NO_STATE THEN Append(mapKeys.cabState, cabId)
                ELSE mapKeys.cabState,
   traceChain |-> IF appends /\ traceChain[cabId] = <<>>
                  THEN Append(mapKeys.traceChain, cabId)
                  ELSE mapKeys.traceChain]

\* the PREDICTED notice sent with io.emit
predictedNoticeToAll(predictedNext, station, update) ==
  IF predictedNext # NONE /\ predictedNext # station.id
  THEN << Emit(ALL, "predicted_incoming",
               Spread(update, [type |-> "PREDICTED", etaSeconds |-> 90])) >>
  ELSE <<>>

\* cab_position, lines 168-175: the PREDICTED notice to the predicted zone's
\* room
predictedNotice(predictedNext, station, update) ==
  IF predictedNext # NONE /\ predictedNext # station.id
  THEN << Emit(Room(predictedNext), "predicted_incoming",
               Spread(update, [type |-> "PREDICTED", etaSeconds |-> 90])) >>
  ELSE <<>>

\* socket.on("cab_position")
CabPosition(cabId, p, dt, rnd) ==
  LET t == now + dt
      hist == pushSample(movementHistory[cabId], p, t)
      station == getOwningStation(p)
      prevState == cabState[cabId]
      tripToken == tripTokenFor(prevState, cabId, p)
      riskScore == computeRiskScore(hist, t)
      predictedNext == predictNextStation(hist)
      newState == newCabState(p, station, tripToken, t, riskScore, predictedNext)
      update == Spread([cabId |-> cabId], newState)
      appends == zoneChanged(prevState, station) \/ firstInside(prevState, station)
      chain == IF appends
               THEN chainTrace(traceChain[cabId],
                               buildTraceEntry(station.id, station.name, t))
               ELSE traceChain[cabId]
      chains == [traceChain EXCEPT ![cabId] = chain]
      zoneEmits ==
        IF zoneChanged(prevState, station)
        THEN << Emit(Room(prevState.stationId), "cab_left", [cabId |-> cabId]),
                Emit(Room(station.id), "cab_update", update),
                Emit(ALL, "trace_chain_update", [cabId |-> cabId, chain |-> chain]),
                Emit(Room(station.id), "predicted_incoming",
                     Spread(update, [type |-> "ACTUAL"])) >>
        ELSE IF firstInside(prevState, station)
        THEN << Emit(ALL, "trace_chain_update", [cabId |-> cabId, chain |-> chain]) >>
        ELSE <<>>
      predictedEmits == predictedNotice(predictedNext, station, update)
      distressTriggers == checkSilentDistress(hist, chain, riskScore, t)
      alertState == Spread(newState, [isAlert |-> TRUE,
                                      distressTriggers |-> distressTriggers])
      alertPayload ==
        [cabId |-> cabId, lat |-> Lat[p], lon |-> Lon[p],
         stationId |-> station.id, riskScore |-> riskScore,
         traceChain |-> IF Len(chain) > 0 THEN [ref |-> cabId] ELSE [val |-> <<>>],
         triggers |-> distressTriggers, type |-> "SILENT_DISTRESS",
         severity |-> severityOf(riskScore)]
      made == createAndStoreAlert(alertPayload, "AUTO", t, rnd,
                                  alertBuffer, lastAlertHash, chains)
  IN
  /\ steps' = steps + 1
  /\ now' = t
  /\ req' = [op |-> "cab_position", cabId |-> cabId, p |-> p]
  /\ resp' = 0
  /\ movementHistory' = [movementHistory EXCEPT ![cabId] = hist]
  /\ traceChain' = chains
  /\ mapKeys' = keysAfterSet(cabId, prevState, appends)
  /\ UNCHANGED socketRooms
  /\ IF Len(distressTriggers) > 0
     THEN /\ cabState' = [cabState EXCEPT ![cabId] = alertState]
          /\ alertBuffer' = made.buffer
          /\ lastAlertHash' = made.tail
          /\ outbox' = zoneEmits \o predictedEmits \o
               << Emit(ALL, "silent_alert", AlertContent(made.alert, chains)),
                  Emit(ALL, "cab_update", Spread([cabId |-> cabId], alertState)) >>
     ELSE /\ cabState' = [cabState EXCEPT ![cabId] = newState]
          /\ outbox' = zoneEmits \o predictedEmits \o
               routineUpdate(station, update)
          /\ UNCHANGED <<alertBuffer, lastAlertHash>>
  /\ UNCHANGED <<alertLog, unifiedLastAlertHash>>
  /\ DashboardsApply
  /\ UNCHANGED browserVars

\* the sample point at the coordinates a record carries
PointAt(lat, lon) == CHOOSE p \in Points : Lat[p] = lat /\ Lon[p] = lon

\* forwardPendingAlertsToStation(stationId): the buffered records that carry
\* (truthy) lat and lon at most 2.0 km from the station, emitted to the
\* station's room when there are any
forwardPendingAlertsToStation(stationId) ==
  LET near(a) ==
        IF "lat" \in DOMAIN a /\ "lon" \in DOMAIN a
        THEN /\ a.lat # 0 /\ a.lon # 0
             /\ StationDistM[PointAt(a.lat, a.lon)][StationIndex(stationId)] <= 2000
        ELSE FALSE
      content(a) == AlertContent(a, traceChain)
      nearby == SelectSeq(alertBuffer, near)
      toForward == [i \in 1..Len(nearby) |-> content(nearby[i])]
  IN IF stationId \notin Stations THEN <<>>
     ELSE IF Len(toForward) > 0
     THEN << Emit(Room(stationId), "alert_buffer_synced", toForward) >>
     ELSE <<>>

\* the snapshot listing every cab that has state, whatever its zone
stationCabsAll(stationId) ==
  LET snapshot(c) == Spread([id |-> c], cabState[c])
  IN [i \in 1..Len(mapKeys.cabState) |-> snapshot(mapKeys.cabState[i])]

\* join_station, lines 109-111: the entries of cabState whose stationId is
\* the station joined, each as {id, ...state}
stationCabs(stationId) ==
  LET inStation(c) == cabState[c].stationId = stationId
      snapshot(c) == Spread([id |-> c], cabState[c])
      owned == SelectSeq(mapKeys.cabState, inStation)
  IN [i \in 1..Len(owned) |-> snapshot(owned[i])]

\* socket.on("join_station")
JoinStation(sock, stationId, dt) ==
  LET inStation(c) == IF cabState[c] = NO_STATE THEN FALSE
                      ELSE cabState[c].stationId = stationId
      cabs == stationCabs(stationId)
      chainEmit(c) == Emit(To(sock), "trace_chain_update",
                           [cabId |-> c, chain |-> traceChain[c]])
      chained == SelectSeq(mapKeys.traceChain, inStation)
  IN
  /\ steps' = steps + 1
  /\ now' = now + dt
  /\ req' = [op |-> "join_station", socket |-> sock, stationId |-> stationId]
  /\ resp' = 0
  /\ socketRooms' = [socketRooms EXCEPT ![sock] = @ \cup {Room(stationId)}]
  /\ outbox' = << Emit(To(sock), "station_cabs", cabs) >>
                 \o [i \in 1..Len(chained) |-> chainEmit(chained[i])]
                 \o forwardPendingAlertsToStation(stationId)
  /\ UNCHANGED <<cabState, movementHistory, traceChain, alertBuffer,
                 lastAlertHash, alertLog, unifiedLastAlertHash, mapKeys>>
  /\ DashboardsApply
  /\ UNCHANGED browserVars

\* io.on("connection") for a browser showing PoliceDashboard: the server
\* registers its handlers and sends nothing; the dashboard starts from an
\* empty cabs Map
DashboardConnects(sock, dt) ==
  /\ sock \notin DOMAIN dashCabs
  /\ steps' = steps + 1
  /\ now' = now + dt
  /\ req' = [op |-> "connection", socket |-> sock]
  /\ resp' = 0
  /\ outbox' = <<>>
  /\ dashCabs' = [s \in DOMAIN dashCabs \cup {sock} |->
                    IF s = sock THEN {} ELSE dashCabs[s]]
  /\ UNCHANGED <<cabState, movementHistory, traceChain, alertBuffer,
                 lastAlertHash, alertLog, unifiedLastAlertHash, mapKeys,
                 socketRooms>>
  /\ UNCHANGED browserVars

\* ------------------------------------------------------------------ unified server

\* POST /api/emergency and the silent alert of cab_position: the record is
\* built and chained inline, its id being `alert_${Date.now()}` alone
chainUnifiedAlert(payload, t, tail, chains) ==
  LET fields == Spread(Spread([id |-> <<t, "">>], payload),
                       [prevHash |-> tail, timestamp |-> t])
  IN Spread(fields, [hash |-> sha256(AlertContent(fields, chains))])

\* POST /api/emergency
UnifiedPostEmergency(body, dt) ==
  LET t == now + dt
      sigToVerify == IF body.signature # NO_SIGNATURE THEN body.signature
                     ELSE signEmergencyPayload(body.payload)
      alert == chainUnifiedAlert(body.payload, t, unifiedLastAlertHash, traceChain)
  IN
  /\ steps' = steps + 1
  /\ now' = t
  /\ req' = [op |-> "POST /api/emergency", body |-> body]
  /\ IF ~verifySignature(body.payload, sigToVerify)
     THEN /\ resp' = 401
          /\ outbox' = <<>>
          /\ UNCHANGED <<alertLog, unifiedLastAlertHash>>
     ELSE /\ unifiedLastAlertHash' = alert.hash
          /\ alertLog' = Append(alertLog, alert)
          /\ outbox' = << Emit(ALL, "POLICE_ALERT",
                               [payload |-> AlertContent(alert, traceChain),
                                signature |-> sigToVerify,
                                publicKey |-> SERVER_KEY,
                                receivedAt |-> t, socketId |-> "api"]) >>
          /\ resp' = 200
  /\ UNCHANGED <<cabState, movementHistory, traceChain, alertBuffer,
                 lastAlertHash, mapKeys, socketRooms>>
  /\ DashboardsApply
  /\ UNCHANGED browserVars

\* socket.on("EMERGENCY_EVENT")
UnifiedEmergencyEvent(data, socketId, dt) ==
  LET t == now + dt
      enriched == Spread(data, [receivedAt |-> t, socketId |-> socketId])
  IN
  /\ steps' = steps + 1
  /\ now' = t
  /\ req' = [op |-> "EMERGENCY_EVENT", body |-> data]
  /\ resp' = 0
  /\ alertLog' = Append(alertLog, Spread(data.payload, [receivedAt |-> t]))
  /\ outbox' = << Emit(ALL, "POLICE_ALERT", enriched) >>
  /\ UNCHANGED <<cabState, movementHistory, traceChain, alertBuffer,
                 lastAlertHash, unifiedLastAlertHash, mapKeys, socketRooms>>
  /\ DashboardsApply
  /\ UNCHANGED browserVars

\* socket.on("cab_position") of the unified server with the intelligence layer
UnifiedCabPosition(cabId, p, dt) ==
  LET t == now + dt
      hist == pushSample(movementHistory[cabId], p, t)
      station == getOwningStation(p)
      prevState == cabState[cabId]
      tripToken == tripTokenFor(prevState, cabId, p)
      riskScore == computeRiskScore(hist, t)
      predictedNext == predictNextStation(hist)
      newState == newCabState(p, station, tripToken, t, riskScore, predictedNext)
      appends == zoneChanged(prevState, station) \/ firstInside(prevState, station)
      chain == IF appends
               THEN chainTrace(traceChain[cabId],
                               buildTraceEntry(station.id, station.name, t))
               ELSE traceChain[cabId]
      chains == [traceChain EXCEPT ![cabId] = chain]
      zoneEmits ==
        IF zoneChanged(prevState, station)
        THEN << Emit(Room(prevState.stationId), "cab_left", [cabId |-> cabId]),
                Emit(ALL, "trace_chain_update", [cabId |-> cabId, chain |-> chain]),
                Emit(Room(station.id), "predicted_incoming",
                     Spread(Spread([cabId |-> cabId], newState), [type |-> "ACTUAL"])) >>
        ELSE IF firstInside(prevState, station)
        THEN << Emit(ALL, "trace_chain_update", [cabId |-> cabId, chain |-> chain]) >>
        ELSE <<>>
      predictedEmits ==
        IF predictedNext # NONE /\ predictedNext # station.id
        THEN << Emit(Room(predictedNext), "predicted_incoming",
                     Spread(Spread([cabId |-> cabId], newState),
                            [type |-> "PREDICTED", etaSeconds |-> 90])) >>
        ELSE <<>>
      distressTriggers == checkSilentDistress(hist, chain, riskScore, t)
      alerted == Len(distressTriggers) > 0
      finalState == IF alerted
                    THEN Spread(newState, [isAlert |-> TRUE,
                                           distressTriggers |-> distressTriggers])
                    ELSE newState
      alertPayload ==
        [cabId |-> cabId, lat |-> Lat[p], lon |-> Lon[p],
         stationId |-> station.id, riskScore |-> riskScore,
         traceChain |-> IF Len(chain) > 0 THEN [ref |-> cabId] ELSE [val |-> <<>>],
         triggers |-> distressTriggers, type |-> "SILENT_DISTRESS",
         severity |-> severityOf(riskScore)]
      alert == chainUnifiedAlert(alertPayload, t, unifiedLastAlertHash, chains)
  IN
  /\ steps' = steps + 1
  /\ now' = t
  /\ req' = [op |-> "cab_position", cabId |-> cabId, p |-> p]
  /\ resp' = 0
  /\ movementHistory' = [movementHistory EXCEPT ![cabId] = hist]
  /\ traceChain' = chains
  /\ mapKeys' = keysAfterSet(cabId, prevState, appends)
  /\ UNCHANGED socketRooms
  /\ cabState' = [cabState EXCEPT ![cabId] = finalState]
  /\ IF alerted
     THEN /\ unifiedLastAlertHash' = alert.hash
          /\ alertLog' = Append(alertLog, alert)
     ELSE UNCHANGED <<alertLog, unifiedLastAlertHash>>
  /\ outbox' = zoneEmits \o predictedEmits \o
       (IF alerted THEN << Emit(ALL, "silent_alert", AlertContent(alert, chains)) >>
        ELSE <<>>) \o
       << Emit(Room(station.id), "cab_update",
               Spread([cabId |-> cabId], finalState)) >>
  /\ UNCHANGED <<alertBuffer, lastAlertHash>>
  /\ DashboardsApply
  /\ UNCHANGED browserVars

\* ------------------------------------------------------------------ browser

\* lib/socket.ts: socket = null
NO_SOCKET == 0

\* a page component before it is mounted and after it is unmounted
UNMOUNTED == [mounted |-> FALSE]

\* loadTrip() when nothing is stored: null
NO_TRIP == [status |-> "NONE"]

\* a step of the browser: the servers' state is not touched
BrowserStep(op) ==
  /\ steps' = steps + 1
  /\ req' = op
  /\ UNCHANGED <<now, outbox, resp>>
  /\ UNCHANGED serverVars

\* lib/socket.ts, the module state with the socket's open connection and
\* listeners
lib == [socket |-> socket, refCount |-> refCount,
        connections |-> connections, listeners |-> listeners]

SetLib(l) ==
  /\ socket' = l.socket
  /\ refCount' = l.refCount
  /\ connections' = l.connections
  /\ listeners' = l.listeners

\* io(SERVER_URL, ...): a connection that is not open yet
newConnection(l) ==
  CHOOSE n \in 1..(Cardinality(l.connections) + 1) : n \notin l.connections

\* getSocket opening a connection at every call
getSocketAlwaysNew(l) ==
  [socket |-> newConnection(l), refCount |-> l.refCount + 1,
   connections |-> l.connections \cup {newConnection(l)},
   listeners |-> {"connect", "connect_error", "disconnect"}]

\* getSocket(): the socket is created, with its three logging listeners,
\* when there is none; the count goes up at every call
getSocket(l) ==
  IF l.socket = NO_SOCKET
  THEN [socket |-> newConnection(l), refCount |-> l.refCount + 1,
        connections |-> l.connections \cup {newConnection(l)},
        listeners |-> {"connect", "connect_error", "disconnect"}]
  ELSE [l EXCEPT !.refCount = @ + 1]

\* releaseSocket()
releaseSocket(l) ==
  LET count == Max(0, l.refCount - 1)
  IN IF count = 0 /\ l.socket # NO_SOCKET
     THEN [socket |-> NO_SOCKET, refCount |-> count,
           connections |-> l.connections \ {l.socket}, listeners |-> {}]
     ELSE [l EXCEPT !.refCount = count]

\* getSocket().emit(ev, data)
EmitOn(l, sent, m) == [lib |-> getSocket(l), emitted |-> Append(sent, m)]

\* a caller of getSocket()
CallGetSocket ==
  /\ BrowserStep([op |-> "getSocket"])
  /\ SetLib(getSocket(lib))
  /\ UNCHANGED <<managerUser, policeDashboard, cabPage, savedTrip, emitted>>

\* a caller of releaseSocket()
CallReleaseSocket ==
  /\ BrowserStep([op |-> "releaseSocket"])
  /\ SetLib(releaseSocket(lib))
  /\ UNCHANGED <<managerUser, policeDashboard, cabPage, savedTrip, emitted>>

\* socketManager.connect(), by a component that does not hold the socket
ManagerConnect ==
  /\ ~managerUser
  /\ BrowserStep([op |-> "socketManager.connect"])
  /\ SetLib(getSocket(lib))
  /\ managerUser' = TRUE
  /\ UNCHANGED <<policeDashboard, cabPage, savedTrip, emitted>>

\* socketManager.disconnect(), by the component that holds the socket
ManagerDisconnect ==
  /\ managerUser
  /\ BrowserStep([op |-> "socketManager.disconnect"])
  /\ SetLib(releaseSocket(lib))
  /\ managerUser' = FALSE
  /\ UNCHANGED <<policeDashboard, cabPage, savedTrip, emitted>>

\* socketManager.joinStation(stationId)
ManagerJoinStation(stationId) ==
  LET sent == EmitOn(lib, emitted, [ev |-> "join_station", stationId |-> stationId])
  IN /\ managerUser
     /\ BrowserStep([op |-> "socketManager.joinStation", stationId |-> stationId])
     /\ SetLib(sent.lib)
     /\ emitted' = sent.emitted
     /\ UNCHANGED <<managerUser, policeDashboard, cabPage, savedTrip>>

\* socketManager.emitCabPosition(cabId, lat, lon)
ManagerEmitCabPosition(cabId, p) ==
  LET sent == EmitOn(lib, emitted, [ev |-> "cab_position", cabId |-> cabId, p |-> p])
  IN /\ managerUser
     /\ BrowserStep([op |-> "socketManager.emitCabPosition", cabId |-> cabId, p |-> p])
     /\ SetLib(sent.lib)
     /\ emitted' = sent.emitted
     /\ UNCHANGED <<managerUser, policeDashboard, cabPage, savedTrip>>

\* socketManager.onStationCabs / onCabUpdate / onCabLeft(cb)
ManagerOn(ev) ==
  /\ managerUser
  /\ BrowserStep([op |-> "socketManager.on", ev |-> ev])
  /\ SetLib([getSocket(lib) EXCEPT !.listeners = @ \cup {ev}])
  /\ UNCHANGED <<managerUser, policeDashboard, cabPage, savedTrip, emitted>>

\* socketManager.off(event)
ManagerOff(ev) ==
  /\ managerUser
  /\ BrowserStep([op |-> "socketManager.off", ev |-> ev])
  /\ SetLib([getSocket(lib) EXCEPT !.listeners = @ \ {ev}])
  /\ UNCHANGED <<managerUser, policeDashboard, cabPage, savedTrip, emitted>>

\* the events PoliceDashboard listens for
DashboardEvents ==
  {"POLICE_ALERT", "ALERT_HISTORY", "station_cabs", "cab_update", "cab_left"}

\* PoliceDashboard mounts: the socket effect takes the socket and registers
\* the five handlers; no station is selected yet
MountPoliceDashboard ==
  /\ ~policeDashboard.mounted
  /\ BrowserStep([op |-> "PoliceDashboard mount"])
  /\ SetLib([getSocket(lib) EXCEPT !.listeners = @ \cup DashboardEvents])
  /\ policeDashboard' = [mounted |-> TRUE, selectedStation |-> ""]
  /\ UNCHANGED <<managerUser, cabPage, savedTrip, emitted>>

\* PoliceDashboard unmounts: the effect's cleanup removes the handlers from
\* the socket it captured and releases the socket
UnmountPoliceDashboard ==
  /\ policeDashboard.mounted
  /\ BrowserStep([op |-> "PoliceDashboard unmount"])
  /\ SetLib(releaseSocket([lib EXCEPT !.listeners = @ \ DashboardEvents]))
  /\ policeDashboard' = UNMOUNTED
  /\ UNCHANGED <<managerUser, cabPage, savedTrip, emitted>>

\* setSelectedStation(id) and the join effect it triggers
SelectStation(stationId) ==
  LET sent == EmitOn(lib, emitted, [ev |-> "join_station", stationId |-> stationId])
  IN /\ policeDashboard.mounted
     /\ policeDashboard.selectedStation # stationId
     /\ BrowserStep([op |-> "PoliceDashboard select", stationId |-> stationId])
     /\ SetLib(sent.lib)
     /\ emitted' = sent.emitted
     /\ policeDashboard' = [policeDashboard EXCEPT !.selectedStation = stationId]
     /\ UNCHANGED <<managerUser, cabPage, savedTrip>>

\* the demo interval of PoliceDashboard, every 2.5 s once the stations are
\* loaded (the first of them is selected then)
DemoTick(p) ==
  LET sent == EmitOn(lib, emitted, [ev |-> "cab_position", cabId |-> "cab_demo", p |-> p])
  IN /\ policeDashboard.mounted
     /\ policeDashboard.selectedStation # ""
     /\ BrowserStep([op |-> "PoliceDashboard demo", p |-> p])
     /\ SetLib(sent.lib)
     /\ emitted' = sent.emitted
     /\ UNCHANGED <<managerUser, policeDashboard, cabPage, savedTrip>>

\* is the trip ACTIVE or ALERT (isRunning)
isRunning(trip) == trip.status \in {"ACTIVE", "ALERT"}

\* CabPage mounts: the trip is loaded from localStorage, the refs start
\* empty and the socket effect takes the socket
MountCabPage ==
  /\ ~cabPage.mounted
  /\ BrowserStep([op |-> "CabPage mount"])
  /\ SetLib(getSocket(lib))
  /\ cabPage' = [mounted |-> TRUE, trip |-> savedTrip, alertEmitted |-> FALSE,
                 corridor |-> FALSE, keyPair |-> FALSE, keyPending |-> FALSE]
  /\ UNCHANGED <<managerUser, policeDashboard, savedTrip, emitted>>

\* CabPage unmounts: the socket effect's cleanup releases the socket
UnmountCabPage ==
  /\ cabPage.mounted
  /\ BrowserStep([op |-> "CabPage unmount"])
  /\ SetLib(releaseSocket(lib))
  /\ cabPage' = UNMOUNTED
  /\ UNCHANGED <<managerUser, policeDashboard, savedTrip, emitted>>

\* handleStartRide, offered while no trip is running: the destination and
\* the emission guard are reset and a key pair is requested; the trip is
\* created ACTIVE and saved unless the position cannot be read
handleStartRide(ok) ==
  LET tripId == IF savedTrip = NO_TRIP THEN 1 ELSE savedTrip.tripId + 1
      newTrip == [tripId |-> tripId, status |-> "ACTIVE", path |-> 1]
      reset == [cabPage EXCEPT !.alertEmitted = FALSE, !.corridor = FALSE,
                               !.keyPair = FALSE, !.keyPending = TRUE]
  IN /\ cabPage.mounted
     /\ ~isRunning(cabPage.trip)
     /\ BrowserStep([op |-> "handleStartRide", ok |-> ok])
     /\ cabPage' = IF ok THEN [reset EXCEPT !.trip = newTrip] ELSE reset
     /\ savedTrip' = IF ok THEN newTrip ELSE savedTrip
     /\ UNCHANGED <<socket, refCount, connections, listeners, managerUser,
                    policeDashboard, emitted>>

\* generateKeyPair().then(...): the key pair requested at the start of the
\* ride arrives
KeyPairGenerated ==
  /\ cabPage.mounted
  /\ cabPage.keyPending
  /\ BrowserStep([op |-> "generateKeyPair.then"])
  /\ cabPage' = [cabPage EXCEPT !.keyPair = TRUE, !.keyPending = FALSE]
  /\ UNCHANGED <<socket, refCount, connections, listeners, managerUser,
                 policeDashboard, savedTrip, emitted>>

\* the map click that sets the destination of a running trip: the corridor
\* effect builds the corridor from the start location and the destination
SetDestination ==
  /\ cabPage.mounted
  /\ isRunning(cabPage.trip)
  /\ ~cabPage.corridor
  /\ BrowserStep([op |-> "setDestination"])
  /\ cabPage' = [cabPage EXCEPT !.corridor = TRUE]
  /\ UNCHANGED <<socket, refCount, connections, listeners, managerUser,
                 policeDashboard, savedTrip, emitted>>

\* pushCoord(lat, lng) with inside = isInsideCorridor(corridor, lat, lng).
\* `current` is the trip read at entry: the path is appended to it, not to
\* the trip marked ALERT a few lines above.
pushCoord(inside) ==
  LET current == cabPage.trip
      deviates == cabPage.corridor /\ current.status = "ACTIVE" /\ ~inside
      alertTrip == [current EXCEPT !.status = "ALERT"]
      emits == deviates /\ ~cabPage.alertEmitted
      packet == [ev |-> "EMERGENCY_EVENT", tripId |-> current.tripId,
                 signed |-> cabPage.keyPair]
      updated == [current EXCEPT !.path = @ + 1]
      final == IF isRunning(current) THEN updated
               ELSE IF deviates THEN alertTrip ELSE current
  IN /\ cabPage.mounted
     /\ BrowserStep([op |-> "pushCoord", inside |-> inside])
     /\ cabPage' = [cabPage EXCEPT !.trip = final,
                                   !.alertEmitted = IF deviates THEN TRUE ELSE @]
     /\ savedTrip' = IF isRunning(current) \/ deviates THEN final ELSE savedTrip
     /\ IF emits
        THEN /\ SetLib(EmitOn(lib, emitted, packet).lib)
             /\ emitted' = EmitOn(lib, emitted, packet).emitted
        ELSE UNCHANGED <<socket, refCount, connections, listeners, emitted>>
     /\ UNCHANGED <<managerUser, policeDashboard>>

\* handleEndRide
handleEndRide ==
  LET completed == [cabPage.trip EXCEPT !.status = "COMPLETED"]
  IN /\ cabPage.mounted
     /\ isRunning(cabPage.trip)
     /\ BrowserStep([op |-> "handleEndRide"])
     /\ cabPage' = [cabPage EXCEPT !.trip = completed]
     /\ savedTrip' = completed
     /\ UNCHANGED <<socket, refCount, connections, listeners, managerUser,
                    policeDashboard, emitted>>

\* ------------------------------------------------------------------ inputs

\* what the cab client signs and submits (CabPage pushCoord)
EmergencyPayload ==
  [tripId |-> "TRIP1", location |-> [lat |-> Lat[1], lng |-> Lon[1]],
   timestamp |-> 0, severity |-> "HIGH"]

\* a submitted payload that names the fields the server sets itself
ForgedPayload ==
  [id |-> <<0, "forged">>, cabId |-> "cab1", source |-> "AUTO",
   prevHash |-> GENESIS, timestamp |-> 0, hash |-> GENESIS,
   type |-> "SILENT_DISTRESS", severity |-> "LOW"]

Payloads == {EmergencyPayload, ForgedPayload}

\* request bodies {payload, signature, publicKey}: unsigned, signed by the cab
\* with its own key pair, signed with the server's key, and signed for another
\* payload
Bodies ==
  { [payload |-> EmergencyPayload, signature |-> NO_SIGNATURE, publicKey |-> ""],
    [payload |-> EmergencyPayload,
     signature |-> signPayload(CAB_KEY, EmergencyPayload), publicKey |-> CAB_KEY],
    [payload |-> EmergencyPayload,
     signature |-> signEmergencyPayload(EmergencyPayload), publicKey |-> SERVER_KEY],
    [payload |-> ForgedPayload, signature |-> NO_SIGNATURE, publicKey |-> ""],
    [payload |-> ForgedPayload,
     signature |-> signEmergencyPayload(EmergencyPayload), publicKey |-> SERVER_KEY] }

\* Math.random().toString(36).slice(2, 8).  Two ids the server generates can
\* only coincide within one millisecond; the handlers of the portal server
\* run in different milliseconds here (Deltas), so one suffix value is drawn.
RandomSuffixes == {"k3x9qa"}

\* the clock at start-up: 23:00 local time
StartTimes == {82800000}

\* ms between two handlers
Deltas == {1000}

\* the points of the city, without the Mysuru outskirts
CityPoints == {1, 2, 3}

\* the dashboards' sockets
Dashboards == {"dash1", "dash2"}

\* ------------------------------------------------------------------ specification

Init ==
  /\ now \in StartTimes
  /\ cabState = [c \in Cabs |-> NO_STATE]
  /\ movementHistory = [c \in Cabs |-> <<>>]
  /\ traceChain = [c \in Cabs |-> <<>>]
  /\ alertBuffer = <<>>
  /\ lastAlertHash = GENESIS
  /\ alertLog = <<>>
  /\ unifiedLastAlertHash = GENESIS
  /\ outbox = <<>>
  /\ req = [op |-> "none"]
  /\ resp = 0
  /\ steps = 0
  /\ mapKeys = [cabState |-> <<>>, traceChain |-> <<>>]
  /\ socketRooms = [sock \in Dashboards |-> {}]
  /\ dashCabs = [sock \in {} |-> {}]
  /\ socket = NO_SOCKET
  /\ refCount = 0
  /\ connections = {}
  /\ listeners = {}
  /\ managerUser = FALSE
  /\ policeDashboard = UNMOUNTED
  /\ cabPage = UNMOUNTED
  /\ savedTrip = NO_TRIP
  /\ emitted = <<>>

\* the portal server under cab positions and emergency submissions
Next ==
  \/ \E c \in Cabs, p \in CityPoints, dt \in Deltas, rnd \in RandomSuffixes :
       steps < MaxSteps /\ CabPosition(c, p, dt, rnd)
  \/ \E body \in Bodies, dt \in Deltas, rnd \in RandomSuffixes :
       steps < MaxSteps /\ PostEmergency(body, dt, rnd)

Spec == Init /\ [][Next]_vars

\* the portal server's alert ledger at depth: two cabs hopping between the two
\* station centres, and unsigned submissions
LedgerBodies ==
  { [payload |-> EmergencyPayload, signature |-> NO_SIGNATURE, publicKey |-> ""] }

NextLedger ==
  \/ \E c \in Cabs, p \in {1, 2}, dt \in Deltas, rnd \in RandomSuffixes :
       /\ steps < MaxLedgerSteps
       /\ IF movementHistory[c] = <<>> THEN TRUE
          ELSE Last(movementHistory[c]).p # p
       /\ CabPosition(c, p, dt, rnd)
  \/ \E body \in LedgerBodies, dt \in Deltas, rnd \in RandomSuffixes :
       steps < MaxLedgerSteps /\ PostEmergency(body, dt, rnd)

SpecLedger == Init /\ [][NextLedger]_vars

\* the unified server; two handlers can run within the same millisecond
UnifiedDeltas == {0, 1000}

SocketIds == {"sock1"}

NextUnified ==
  \/ \E c \in Cabs, p \in {1, 2}, dt \in UnifiedDeltas :
       steps < MaxUnifiedSteps /\ UnifiedCabPosition(c, p, dt)
  \/ \E body \in Bodies, dt \in UnifiedDeltas :
       steps < MaxUnifiedSteps /\ UnifiedPostEmergency(body, dt)
  \/ \E data \in Bodies, sock \in SocketIds, dt \in UnifiedDeltas :
       steps < MaxUnifiedSteps /\ UnifiedEmergencyEvent(data, sock, dt)

SpecUnified == Init /\ [][NextUnified]_vars

\* the portal server under one cab filling its movement history: the cab
\* moves freely for its first samples, then reports from where it stands
\* until the history is full, and is free again once the oldest samples are
\* being dropped; two samples can arrive within the same millisecond
HistoryDeltas == {0, 1000}

NextHistory ==
  \E p \in {1, 3}, dt \in HistoryDeltas, rnd \in RandomSuffixes :
    /\ steps < MaxHistorySteps
    /\ IF Len(movementHistory["cab1"]) < FreeSamples THEN TRUE
       ELSE IF Len(movementHistory["cab1"]) >= HISTORY_LIMIT THEN TRUE
       ELSE p = Last(movementHistory["cab1"]).p /\ dt = 1000
    /\ CabPosition("cab1", p, dt, rnd)

SpecHistory == Init /\ [][NextHistory]_vars

\* the portal server under cabs that report again after a second or after
\* ten minutes
StopDeltas == {1000, 600000}

NextStop ==
  \E c \in Cabs, p \in {1, 2}, dt \in StopDeltas, rnd \in RandomSuffixes :
    steps < MaxStopSteps /\ CabPosition(c, p, dt, rnd)

SpecStop == Init /\ [][NextStop]_vars

\* the portal server under cab positions, unsigned submissions and
\* dashboards joining stations
NextJoin ==
  \/ \E c \in Cabs, p \in CityPoints, dt \in Deltas, rnd \in RandomSuffixes :
       steps < MaxJoinSteps /\ CabPosition(c, p, dt, rnd)
  \/ \E body \in LedgerBodies, dt \in Deltas, rnd \in RandomSuffixes :
       steps < MaxJoinSteps /\ PostEmergency(body, dt, rnd)
  \/ \E sock \in Dashboards, stationId \in {"S1", "S2"}, dt \in Deltas :
       steps < MaxJoinSteps /\ JoinStation(sock, stationId, dt)

SpecJoin == Init /\ [][NextJoin]_vars

\* the portal server under one dashboard that connects and joins stations
\* while cabs move between the two station centres
MaxDashSteps == 5

NextDash ==
  \/ \E c \in Cabs, p \in {1, 2}, dt \in Deltas, rnd \in RandomSuffixes :
       steps < MaxDashSteps /\ CabPosition(c, p, dt, rnd)
  \/ \E dt \in Deltas :
       steps < MaxDashSteps /\ DashboardConnects("dash1", dt)
  \/ \E stationId \in {"S1", "S2"}, dt \in Deltas :
       /\ steps < MaxDashSteps
       /\ "dash1" \in DOMAIN dashCabs
       /\ JoinStation("dash1", stationId, dt)

SpecDash == Init /\ [][NextDash]_vars

\* lib/socket.ts under any sequence of getSocket and releaseSocket calls
MaxSocketCalls == 16

NextSocket ==
  \/ steps < MaxSocketCalls /\ CallGetSocket
  \/ steps < MaxSocketCalls /\ CallReleaseSocket

SpecSocket == Init /\ [][NextSocket]_vars

\* one browser: a component driving the socket through socketManager, and
\* PoliceDashboard mounting, selecting stations, running its demo interval
\* and unmounting
MaxManagerSteps == 5

ManagerEvents == {"station_cabs", "cab_update", "cab_left"}

NextManager ==
  \/ steps < MaxManagerSteps /\ ManagerConnect
  \/ steps < MaxManagerSteps /\ ManagerDisconnect
  \/ \E stationId \in {"S1", "S2"} :
       steps < MaxManagerSteps /\ ManagerJoinStation(stationId)
  \/ steps < MaxManagerSteps /\ ManagerEmitCabPosition("cab1", 1)
  \/ \E ev \in ManagerEvents : steps < MaxManagerSteps /\ ManagerOn(ev)
  \/ \E ev \in ManagerEvents : steps < MaxManagerSteps /\ ManagerOff(ev)
  \/ steps < MaxManagerSteps /\ MountPoliceDashboard
  \/ steps < MaxManagerSteps /\ UnmountPoliceDashboard
  \/ \E stationId \in {"S1", "S2"} :
       steps < MaxManagerSteps /\ SelectStation(stationId)
  \/ steps < MaxManagerSteps /\ DemoTick(1)

SpecManager == Init /\ [][NextManager]_vars

\* the cab page of one browser: mounting, rides, destinations, positions
\* inside and outside the corridor, and unmounting
MaxCabSteps == 8

NextCab ==
  \/ steps < MaxCabSteps /\ MountCabPage
  \/ steps < MaxCabSteps /\ UnmountCabPage
  \/ \E ok \in BOOLEAN : steps < MaxCabSteps /\ handleStartRide(ok)
  \/ steps < MaxCabSteps /\ KeyPairGenerated
  \/ steps < MaxCabSteps /\ SetDestination
  \/ \E inside \in BOOLEAN : steps < MaxCabSteps /\ pushCoord(inside)
  \/ steps < MaxCabSteps /\ handleEndRide

SpecCab == Init /\ [][NextCab]_vars

\* intel.computeRiskScore called on a history at some hour
EvalRiskScore(history, dt) ==
  /\ steps' = steps + 1
  /\ now' = now + dt
  /\ req' = [op |-> "computeRiskScore", history |-> history]
  /\ resp' = computeRiskScore(history, now + dt)
  /\ outbox' = <<>>
  /\ UNCHANGED <<cabState, movementHistory, traceChain, alertBuffer,
                 lastAlertHash, alertLog, unifiedLastAlertHash, mapKeys,
                 socketRooms>>
  /\ DashboardsApply
  /\ UNCHANGED browserVars

\* the histories of n samples over the sample points, the first stamped 0
\* and each later one a second or ten minutes after the one before
RECURSIVE HistoriesOfLen(_)
HistoriesOfLen(n) ==
  IF n = 0 THEN {<<>>}
  ELSE IF n = 1 THEN {<<[p |-> p, ts |-> 0]>> : p \in Points}
  ELSE {Append(h, [p |-> p, ts |-> Last(h).ts + g]) :
          h \in HistoriesOfLen(n - 1), p \in Points, g \in {1000, 600000}}

Histories == UNION {HistoriesOfLen(n) : n \in 0..MaxRiskLen}

\* ms from start-up to the evaluation: none, 8 hours, 22 hours (23:00, 07:00
\* and 21:00); the function is pure, so each behaviour calls it once
RiskHours == {0, 28800000, 79200000}

NextRisk ==
  \E history \in Histories, dt \in RiskHours :
    steps = 0 /\ EvalRiskScore(history, dt)

SpecRisk == Init /\ [][NextRisk]_vars

\* the portal server under cabs creeping on the Mysuru outskirts, reporting
\* again after a second or after ten minutes
NextIsolated ==
  \E c \in Cabs, p \in {4, 5}, dt \in StopDeltas, rnd \in RandomSuffixes :
    steps < MaxIsolatedSteps /\ CabPosition(c, p, dt, rnd)

SpecIsolated == Init /\ [][NextIsolated]_vars

\* zone churn against the hopping window: two cabs between the two station
\* centres, a second or a minute apart
MaxHopSteps == 5

HopDeltas == {1000, 60000}

NextHop ==
  \E c \in Cabs, p \in {1, 2}, dt \in HopDeltas, rnd \in RandomSuffixes :
    steps < MaxHopSteps /\ CabPosition(c, p, dt, rnd)

SpecHop == Init /\ [][NextHop]_vars

\* ------------------------------------------------------------------ properties

IsPost(r) == r.op = "POST /api/emergency"

\* C1: in every reachable state every cab's trace chain is hash-linked: the
\* first entry's prevHash is the genesis value and every later entry's
\* prevHash is the hash stored in the entry before it.
TraceChainLinked ==
  \A c \in Cabs :
    \A i \in 1..Len(traceChain[c]) :
      traceChain[c][i].prevHash =
        IF i = 1 THEN GENESIS ELSE traceChain[c][i - 1].hash

\* a cab whose chain holds three entries
TraceChainLinkedWitness ==
  \E c \in Cabs : Len(traceChain[c]) >= 3

\* C2: under every interleaving of submissions and position updates of the
\* cabs the alert buffer is one hash-linked chain in append order: record 1
\* links to the genesis value, every later record to the hash of the record
\* before it, no two records link to the same tail, and the tail pointer is
\* the hash of the last record.
AlertChainLinked ==
  /\ \A i \in 1..Len(alertBuffer) :
       alertBuffer[i].prevHash =
         IF i = 1 THEN GENESIS ELSE alertBuffer[i - 1].hash
  /\ \A i, j \in 1..Len(alertBuffer) :
       i # j => alertBuffer[i].prevHash # alertBuffer[j].prevHash
  /\ lastAlertHash =
       IF Len(alertBuffer) = 0 THEN GENESIS ELSE Last(alertBuffer).hash

\* a detector record of one cab, then a submitted record, then a detector
\* record of the other cab
AlertChainLinkedWitness ==
  \E i, j, k \in 1..Len(alertBuffer) :
    /\ i < j /\ j < k
    /\ alertBuffer[i].source = "AUTO"
    /\ alertBuffer[j].source = "MANUAL"
    /\ alertBuffer[k].source = "AUTO"
    /\ alertBuffer[i].cabId # alertBuffer[k].cabId

\* C3: in the unified server every record of the alert log, whichever way it
\* arrived, carries a hash and a prevHash equal to the hash of the record
\* stored before it (the genesis value for the first).
UnifiedLogLinked ==
  \A i \in 1..Len(alertLog) :
    /\ "hash" \in DOMAIN alertLog[i]
    /\ "prevHash" \in DOMAIN alertLog[i]
    /\ IF i = 1 THEN alertLog[i].prevHash = GENESIS
       ELSE /\ "hash" \in DOMAIN alertLog[i - 1]
            /\ alertLog[i].prevHash = alertLog[i - 1].hash

\* C4: a submission to POST /api/emergency whose signature fails the
\* verification is answered 401, leaves the alert buffer and the tail hash
\* as they were and emits nothing.
RejectedSubmissionChangesNothing ==
  [][ ( /\ steps' = steps + 1
        /\ IsPost(req')
        /\ req'.body.signature # NO_SIGNATURE
        /\ ~verifySignature(req'.body.payload, req'.body.signature) )
      => ( /\ resp' = 401
           /\ alertBuffer' = alertBuffer
           /\ lastAlertHash' = lastAlertHash
           /\ outbox' = <<>> ) ]_vars

\* a submission with a bad signature was just refused while the buffer
\* holds records
RejectedSubmissionWitness ==
  /\ IsPost(req)
  /\ req.body.signature # NO_SIGNATURE
  /\ ~verifySignature(req.body.payload, req.body.signature)
  /\ resp = 401
  /\ Len(alertBuffer) > 0

\* a signature that is there and is valid neither under the key the
\* submitter declares nor under the server's key
Unverified(body) ==
  /\ body.signature # NO_SIGNATURE
  /\ ~verifyPayload(body.publicKey, body.payload, body.signature)
  /\ ~verifySignature(body.payload, body.signature)

\* C5: a distress signal submitted from outside whose signature does not
\* verify is never appended to the alert log and never broadcast, whether it
\* came through POST /api/emergency or through EMERGENCY_EVENT.
UnverifiedNeverStored ==
  [][ ( /\ steps' = steps + 1
        /\ req'.op \in {"POST /api/emergency", "EMERGENCY_EVENT"}
        /\ Unverified(req'.body) )
      => ( /\ alertLog' = alertLog
           /\ outbox' = <<>> ) ]_vars

\* C6: a signed submission is verified against the public key its submitter
\* declares: it is accepted if and only if its signature is valid under that
\* key.
DeclaredKeyDecides ==
  ( IsPost(req) /\ req.body.signature # NO_SIGNATURE )
    => ( resp = 200 <=>
           verifyPayload(req.body.publicKey, req.body.payload, req.body.signature) )

\* C7: every accepted submission to POST /api/emergency makes the alert
\* chain longer by exactly one record, pushed at the end, and the new
\* record's hash differs from the hash of the previous tail.
AcceptedSubmissionAppendsOne ==
  [][ ( steps' = steps + 1 /\ IsPost(req') /\ resp' = 200 )
      => ( /\ Len(alertBuffer') = Len(alertBuffer) + 1
           /\ SubSeq(alertBuffer', 1, Len(alertBuffer)) = alertBuffer
           /\ Last(alertBuffer').hash # lastAlertHash
           /\ Len(alertBuffer) > 0 =>
                Last(alertBuffer').hash # Last(alertBuffer).hash ) ]_vars

\* a submission was just accepted onto a chain that already had a tail
AcceptedSubmissionWitness ==
  IsPost(req) /\ resp = 200 /\ Len(alertBuffer) >= 2

\* C8: the ledger does not deduplicate: when the identical payload and
\* signature are submitted twice in a row, the second submission appends a
\* new record that differs from the first in id, prevHash and hash.
ResubmissionIsDistinct ==
  [][ ( /\ steps' = steps + 1
        /\ IsPost(req) /\ resp = 200
        /\ IsPost(req') /\ resp' = 200
        /\ req'.body = req.body )
      => ( /\ Len(alertBuffer') = Len(alertBuffer) + 1
           /\ Last(alertBuffer').id # Last(alertBuffer).id
           /\ Last(alertBuffer').prevHash # Last(alertBuffer).prevHash
           /\ Last(alertBuffer').hash # Last(alertBuffer).hash ) ]_vars

\* C9: every record of the alert chain has an id different from the id of
\* every other record.
UniqueAlertIds ==
  \A i, j \in 1..Len(alertBuffer) :
    i # j => alertBuffer[i].id # alertBuffer[j].id

\* C10: a record's source is AUTO exactly when the distress detection made
\* it and MANUAL exactly when it was submitted, and its source, prevHash and
\* timestamp are the server's whatever fields the submitted payload carries.
SourceSetByServer ==
  [][ alertBuffer' # alertBuffer
      => ( /\ Len(alertBuffer') = Len(alertBuffer) + 1
           /\ SubSeq(alertBuffer', 1, Len(alertBuffer)) = alertBuffer
           /\ req'.op \in {"POST /api/emergency", "cab_position"}
           /\ Last(alertBuffer').source =
                (IF req'.op = "cab_position" THEN "AUTO" ELSE "MANUAL")
           /\ Last(alertBuffer').prevHash = lastAlertHash
           /\ Last(alertBuffer').timestamp = now' ) ]_vars

\* the buffer holds a detector record and a submitted record whose payload
\* named a source, a prevHash and a timestamp of its own
SourceSetByServerWitness ==
  /\ \E i \in 1..Len(alertBuffer) : alertBuffer[i].source = "AUTO"
  /\ \E i \in 1..Len(alertBuffer) :
       /\ alertBuffer[i].source = "MANUAL"
       /\ alertBuffer[i].id = ForgedPayload.id

\* the fields of a stored alert record that its digest is taken over: all but
\* hash and signature, as they read while the chains are `chains`
RecordedFields(alert, chains) ==
  AlertContent([k \in (DOMAIN alert) \ {"hash", "signature"} |-> alert[k]], chains)

\* C11: in every reachable state, for every record of the alert chain, the
\* digest recomputed over the record's stored fields (all but hash and
\* signature) is the stored hash; a detector record embeds the cab's trace
\* chain, and this holds also after that cab changed zone again.
AlertHashReproducible ==
  \A i \in 1..Len(alertBuffer) :
    sha256(RecordedFields(alertBuffer[i], traceChain)) = alertBuffer[i].hash

\* C12: the stored hash of every trace entry is the digest of exactly its
\* zone id, zone name, timestamp and previous hash: re-hashing these four
\* recorded fields of a stored entry reproduces its hash.
TraceHashOverFourFields ==
  \A c \in Cabs :
    \A i \in 1..Len(traceChain[c]) :
      traceChain[c][i].hash =
        sha256([stationId |-> traceChain[c][i].stationId,
                stationName |-> traceChain[c][i].stationName,
                timestamp |-> traceChain[c][i].timestamp,
                prevHash |-> traceChain[c][i].prevHash])

\* C13: trace chains are append-only: whatever step is taken, every cab's
\* chain before the step is an unchanged prefix of its chain after it (no
\* entry is removed, reordered or modified), and the timestamps of the
\* entries never decrease along a chain.
TraceChainAppendOnly ==
  [][ \A c \in Cabs :
        /\ Len(traceChain'[c]) >= Len(traceChain[c])
        /\ SubSeq(traceChain'[c], 1, Len(traceChain[c])) = traceChain[c]
        /\ \A i \in 2..Len(traceChain'[c]) :
             traceChain'[c][i - 1].timestamp <= traceChain'[c][i].timestamp ]_vars

\* a position update has just appended to a chain that held entries already
TraceChainAppendOnlyWitness ==
  /\ req.op = "cab_position"
  /\ Len(traceChain[req.cabId]) >= 2
  /\ Last(traceChain[req.cabId]).timestamp = now

\* C14: after any sequence of cab_position events, also several for the same
\* cab within one millisecond, every cab's movement history holds at most 20
\* samples and their timestamps do not decrease in stored order.
HistoryBoundedAndOrdered ==
  \A c \in Cabs :
    /\ Len(movementHistory[c]) <= 20
    /\ \A i \in 2..Len(movementHistory[c]) :
         movementHistory[c][i - 1].ts <= movementHistory[c][i].ts

\* more samples were reported than the history keeps, the last two of them
\* within the same millisecond
HistoryBoundedWitness ==
  /\ steps > 21
  /\ Len(movementHistory["cab1"]) = 20
  /\ movementHistory["cab1"][19].ts = movementHistory["cab1"][20].ts

\* C15: processing a position sample appends a trace entry exactly when (a)
\* the cab has state and the sample's owning zone differs from the stored
\* one, or (b) the cab has no state and the sample lies inside its owning
\* zone's radius; in case (b) the state is created with that zone and the
\* chain has length 1; in every other case the chain is unchanged; no sample
\* appends more than one entry, and no other step touches a chain.
TraceAppendedExactlyWhen ==
  [][ IF steps' = steps + 1 /\ req'.op = "cab_position"
      THEN LET c == req'.cabId
               zone == getOwningStation(req'.p)
               caseA == IF cabState[c] = NO_STATE THEN FALSE
                        ELSE cabState[c].stationId # zone.id
               caseB == cabState[c] = NO_STATE /\ zone.insideRadius
           IN /\ (caseA \/ caseB) <=>
                   Len(traceChain'[c]) = Len(traceChain[c]) + 1
              /\ ~(caseA \/ caseB) => traceChain'[c] = traceChain[c]
              /\ Len(traceChain'[c]) <= Len(traceChain[c]) + 1
              /\ caseB => /\ cabState'[c].stationId = zone.id
                          /\ Len(traceChain'[c]) = 1
              /\ \A d \in Cabs \ {c} : traceChain'[d] = traceChain[d]
      ELSE traceChain' = traceChain ]_vars

\* one cab was first seen outside every radius and has state but no entry;
\* the other has just been seen for the first time, inside a radius
TraceAppendedWitness ==
  /\ req.op = "cab_position"
  /\ Len(movementHistory[req.cabId]) = 1
  /\ Len(traceChain[req.cabId]) = 1
  /\ \E d \in Cabs \ {req.cabId} :
       /\ cabState[d] # NO_STATE
       /\ ~cabState[d].insideRadius
       /\ Len(traceChain[d]) = 0

\* C16: a trace entry is appended the first time a cab's position falls
\* inside a zone's radius, also when its earlier samples were owned by the
\* same zone but lay outside the radius: a cab that has reported a position
\* inside a radius has a trace entry.
EnteringRadiusAppends ==
  \A c \in Cabs :
    (\E i \in 1..Len(movementHistory[c]) :
       getOwningStation(movementHistory[c][i].p).insideRadius)
    => Len(traceChain[c]) >= 1

\* the emits of the last handler with the event name ev
EmitsOf(box, ev) == {i \in 1..Len(box) : box[i].ev = ev}

\* C17: when a sample of a cab with state is owned by a zone Z2 other than
\* its stored zone Z1, cab_left is emitted, to the room of Z1 only; the
\* cab's chain grows by exactly one entry, naming Z2 and linked to the entry
\* before it; a trace_chain_update carrying the full chain is broadcast to
\* all; and the room of Z2 gets a predicted_incoming of type ACTUAL.
ZoneChangeAnnounced ==
  [][ ( /\ steps' = steps + 1
        /\ req'.op = "cab_position"
        /\ cabState[req'.cabId] # NO_STATE
        /\ cabState[req'.cabId].stationId # getOwningStation(req'.p).id )
      => LET c == req'.cabId
             Z1 == cabState[c].stationId
             Z2 == getOwningStation(req'.p).id
             old == traceChain[c]
             new == traceChain'[c]
         IN /\ EmitsOf(outbox', "cab_left") # {}
            /\ \A i \in EmitsOf(outbox', "cab_left") :
                 outbox'[i].to = Room(Z1) /\ outbox'[i].data.cabId = c
            /\ Len(new) = Len(old) + 1
            /\ SubSeq(new, 1, Len(old)) = old
            /\ Last(new).stationId = Z2
            /\ Last(new).prevHash = (IF Len(old) = 0 THEN GENESIS ELSE Last(old).hash)
            /\ \E i \in EmitsOf(outbox', "trace_chain_update") :
                 /\ outbox'[i].to = ALL
                 /\ outbox'[i].data.cabId = c
                 /\ outbox'[i].data.chain = new
            /\ \E i \in EmitsOf(outbox', "predicted_incoming") :
                 /\ outbox'[i].to = Room(Z2)
                 /\ outbox'[i].data.cabId = c
                 /\ outbox'[i].data.type = "ACTUAL" ]_vars

\* a cab first seen at a zone's centre has just reported from another zone:
\* it has left, and its chain holds two entries
ZoneChangeWitness ==
  /\ req.op = "cab_position"
  /\ EmitsOf(outbox, "cab_left") # {}
  /\ Len(traceChain[req.cabId]) = 2
  /\ traceChain[req.cabId][1].stationId # traceChain[req.cabId][2].stationId

\* C18: a cab's trip token is minted when its first sample is processed and
\* every later stored state of the cab carries the same token, across zone
\* handoffs and alerts.
TripTokenStable ==
  [][ \A c \in Cabs :
        IF cabState[c] # NO_STATE
        THEN /\ cabState'[c] # NO_STATE
             /\ cabState'[c].tripToken = cabState[c].tripToken
        ELSE cabState'[c] # NO_STATE =>
               /\ req'.op = "cab_position"
               /\ req'.cabId = c
               /\ cabState'[c].tripToken = generateTripToken(c, req'.p) ]_vars

\* a cab in alert after three zone entries, away from where its token was
\* minted
TripTokenStableWitness ==
  \E c \in Cabs :
    /\ cabState[c] # NO_STATE
    /\ cabState[c].isAlert
    /\ Len(traceChain[c]) >= 3
    /\ cabState[c].tripToken = generateTripToken(c, movementHistory[c][1].p)
    /\ movementHistory[c][1].p # Last(movementHistory[c]).p

\* C19: for every processed position sample: if its set of distress
\* triggers is not empty, the cab's stored state has isAlert true, exactly
\* one record is appended to the alert chain, of source AUTO, and it is
\* broadcast to all; if the set is empty, no record is appended and every
\* cab_update of the sample is addressed to the room of the cab's owning
\* zone.
AlertOrScopedUpdate ==
  [][ ( steps' = steps + 1 /\ req'.op = "cab_position" )
      => LET c == req'.cabId
             triggers == checkSilentDistress(movementHistory'[c], traceChain'[c],
                                             cabState'[c].riskScore, now')
         IN IF Len(triggers) > 0
            THEN /\ cabState'[c].isAlert
                 /\ Len(alertBuffer') = Len(alertBuffer) + 1
                 /\ SubSeq(alertBuffer', 1, Len(alertBuffer)) = alertBuffer
                 /\ Last(alertBuffer').source = "AUTO"
                 /\ Last(alertBuffer').cabId = c
                 /\ \E i \in EmitsOf(outbox', "silent_alert") :
                      /\ outbox'[i].to = ALL
                      /\ outbox'[i].data = AlertContent(Last(alertBuffer'), traceChain')
            ELSE /\ alertBuffer' = alertBuffer
                 /\ EmitsOf(outbox', "cab_update") # {}
                 /\ \A i \in EmitsOf(outbox', "cab_update") :
                      /\ outbox'[i].to = <<"station", cabState'[c].stationId>>
                      /\ outbox'[i].data.cabId = c ]_vars

\* a sample without triggers has just moved a cab to another zone (its
\* update went out twice) while the chain holds a detector record
AlertOrScopedUpdateWitness ==
  /\ req.op = "cab_position"
  /\ ~cabState[req.cabId].isAlert
  /\ Cardinality(EmitsOf(outbox, "cab_update")) = 2
  /\ \E i \in 1..Len(alertBuffer) : alertBuffer[i].source = "AUTO"

\* C20: whenever the gap between a cab's two most recent samples exceeds 3
\* minutes and their displacement is under 50 m (two samples 10 minutes
\* apart at the same place, for one), processing the later sample fires
\* STOPPED_EXTENDED: the cab's state is in alert with that trigger.
StoppedExtendedFires ==
  [][ ( /\ steps' = steps + 1
        /\ req'.op = "cab_position"
        /\ LET h == movementHistory'[req'.cabId]
               n == Len(h)
           IN IF n < 2 THEN FALSE
              ELSE /\ h[n].ts - h[n - 1].ts > 3 * 60 * 1000
                   /\ haversineDistance(h[n - 1].p, h[n].p) < 50 )
      => ( /\ cabState'[req'.cabId].isAlert
           /\ \E i \in 1..Len(cabState'[req'.cabId].distressTriggers) :
                cabState'[req'.cabId].distressTriggers[i] = "STOPPED_EXTENDED" ) ]_vars

\* C21: for a history of two samples 10 minutes apart with zero
\* displacement the computed risk score is strictly greater than the score,
\* at the same hour, of the same two positions reported less than 60
\* seconds apart.
StopRaisesRisk ==
  [][ ( /\ steps' = steps + 1
        /\ req'.op = "cab_position"
        /\ LET h == movementHistory'[req'.cabId]
           IN IF Len(h) # 2 THEN FALSE
              ELSE h[2].ts - h[1].ts = 600000 /\ h[1].p = h[2].p )
      => LET h == movementHistory'[req'.cabId]
             moving == << [p |-> h[1].p, ts |-> h[2].ts - 1000], h[2] >>
         IN cabState'[req'.cabId].riskScore > computeRiskScore(moving, now') ]_vars

\* does a trigger list hold the trigger
HasTrigger(triggers, name) == \E i \in 1..Len(triggers) : triggers[i] = name

\* is the sample point inside one of the configured isolated boxes
InIsolatedBox(p) ==
  \E z \in ISOLATED_ZONES :
    Lat[p] >= z[1] /\ Lat[p] <= z[2] /\ Lon[p] >= z[3] /\ Lon[p] <= z[4]

\* C22: when the last 4 samples of a cab are each less than 20 m from the
\* one before and the latest lies inside an isolated zone, the trigger set
\* of that sample holds STOP_START_ISOLATED and an alert record of severity
\* MEDIUM, HIGH or CRITICAL is appended for the cab.
StopStartIsolatedFires ==
  [][ ( /\ steps' = steps + 1
        /\ req'.op = "cab_position"
        /\ LET h == movementHistory'[req'.cabId]
               n == Len(h)
           IN IF n < 4 THEN FALSE
              ELSE /\ \A i \in (n - 2)..n :
                        haversineDistance(h[i - 1].p, h[i].p) < 20
                   /\ InIsolatedBox(h[n].p) )
      => ( /\ cabState'[req'.cabId].isAlert
           /\ HasTrigger(cabState'[req'.cabId].distressTriggers, "STOP_START_ISOLATED")
           /\ Len(alertBuffer') = Len(alertBuffer) + 1
           /\ Last(alertBuffer').cabId = req'.cabId
           /\ HasTrigger(Last(alertBuffer').triggers, "STOP_START_ISOLATED")
           /\ Last(alertBuffer').severity \in {"MEDIUM", "HIGH", "CRITICAL"} ) ]_vars

\* the fourth creeping sample of a cab has just raised its first alert, for
\* STOP_START_ISOLATED alone
StopStartIsolatedWitness ==
  /\ req.op = "cab_position"
  /\ Len(movementHistory[req.cabId]) = 4
  /\ cabState[req.cabId].isAlert
  /\ cabState[req.cabId].distressTriggers = <<"STOP_START_ISOLATED">>
  /\ Len(alertBuffer) = 1
  /\ Last(alertBuffer).severity = "MEDIUM"

\* C23: computeRiskScore returns an integer in [0,100] for every history;
\* for a history of length 0 or 1 only the time-of-day score (weighted 0.2),
\* the road-proximity score and the isolated-zone score of the last sample
\* contribute.
RiskScoreInRange ==
  req.op = "computeRiskScore" =>
    LET h == req.history
        tod == timeOfDayRisk(now) \div 5
        last == Last(h).p
        road == IF RoadDistM[last] > 5000 THEN 15
                ELSE IF RoadDistM[last] > 2000 THEN 8 ELSE 0
        isolated == IF InIsolatedBox(last) THEN 20 ELSE 0
    IN /\ resp \in 0..100
       /\ Len(h) = 0 => resp = tod
       /\ Len(h) = 1 => resp = tod + road + isolated

\* the score of the empty history was asked for in the morning and came
\* out 0
RiskScoreWitness ==
  /\ req.op = "computeRiskScore"
  /\ Len(req.history) = 0
  /\ resp = 0

\* is the location of a stored record within 2 km of the station's centre:
\* lat and lon of a detector record, location.lat and location.lng of a
\* submitted one
RecordNear(a, stationId) ==
  IF "lat" \in DOMAIN a /\ "lon" \in DOMAIN a
  THEN StationDistM[PointAt(a.lat, a.lon)][StationIndex(stationId)] <= 2000
  ELSE IF "location" \in DOMAIN a
  THEN StationDistM[PointAt(a.location.lat, a.location.lng)][StationIndex(stationId)] <= 2000
  ELSE FALSE

\* C24: a subscriber that joins zone Z is sent every record of the alert
\* buffer whose location lies within 2 km of Z's centre and no other record,
\* detector records and submitted records (location in payload.location)
\* alike, however long ago they were appended.
JoinForwardsNearbyAlerts ==
  [][ ( steps' = steps + 1 /\ req'.op = "join_station" )
      => LET Z == req'.stationId
         IN \A k \in 1..Len(alertBuffer) :
              RecordNear(alertBuffer[k], Z)
                <=> \E i \in EmitsOf(outbox', "alert_buffer_synced") :
                      /\ outbox'[i].to \in {Room(Z), To(req'.socket)}
                      /\ \E m \in 1..Len(outbox'[i].data) :
                           outbox'[i].data[m] = AlertContent(alertBuffer[k], traceChain) ]_vars

\* the number of detector records in a buffer
AutoCount(buffer) ==
  Cardinality({i \in 1..Len(buffer) : buffer[i].source = "AUTO"})

\* C25: alerts are not coalesced: every processed sample whose trigger set
\* is not empty adds exactly one AUTO record and nothing else adds or
\* removes one, so the number of AUTO records is the number of such samples
\* and a condition lasting k samples yields k records.
AlertsNotCoalesced ==
  [][ AutoCount(alertBuffer') = AutoCount(alertBuffer) +
        ( IF steps' = steps + 1 /\ req'.op = "cab_position"
          THEN IF Len(checkSilentDistress(movementHistory'[req'.cabId],
                                          traceChain'[req'.cabId],
                                          cabState'[req'.cabId].riskScore, now')) > 0
               THEN 1 ELSE 0
          ELSE 0 ) ]_vars

\* two records in a row of one cab for the same triggers
AlertsNotCoalescedWitness ==
  \E i \in 1..Len(alertBuffer) :
    /\ i + 1 <= Len(alertBuffer)
    /\ \A k \in i..(i + 1) :
         /\ alertBuffer[k].source = "AUTO"
         /\ alertBuffer[k].cabId = alertBuffer[i].cabId
         /\ alertBuffer[k].triggers = alertBuffer[i].triggers

\* C26: after every processed sample the cab's stored isAlert flag is true
\* exactly when that sample's trigger set was non-empty, and the stored state
\* carries a trigger list (that sample's) exactly then: an alerted cab whose
\* next sample fires no trigger is stored with isAlert false and no list.
IsAlertIffTriggers ==
  [][ (steps' = steps + 1 /\ req'.op = "cab_position") =>
        LET c == req'.cabId
            stored == cabState'[c]
            triggers == checkSilentDistress(movementHistory'[c], traceChain'[c],
                                            stored.riskScore, now')
        IN /\ stored.isAlert = (Len(triggers) > 0)
           /\ ("distressTriggers" \in DOMAIN stored) = (Len(triggers) > 0)
           /\ Len(triggers) > 0 => stored.distressTriggers = triggers ]_vars

\* a cab whose previous sample stored an alert and whose latest sample left
\* it with isAlert false and no trigger list
IsAlertClearedWitness ==
  /\ req.op = "cab_position"
  /\ LET c == req.cabId
         n == Len(movementHistory[c])
     IN /\ n >= 2
        /\ cabState[c].isAlert = FALSE
        /\ "distressTriggers" \notin DOMAIN cabState[c]
        /\ \E i \in 1..Len(alertBuffer) :
             /\ alertBuffer[i].source = "AUTO"
             /\ alertBuffer[i].cabId = c
             /\ alertBuffer[i].timestamp = movementHistory[c][n - 1].ts

\* C27: ABNORMAL_HOPPING is in a sample's trigger set exactly when the cab's
\* trace chain, the entry appended for that sample included, holds at least
\* 3 entries less than 120 seconds old at the evaluation.
HoppingIffThreeRecent ==
  [][ (steps' = steps + 1 /\ req'.op = "cab_position") =>
        LET c == req'.cabId
            stored == cabState'[c]
            chain == traceChain'[c]
            recent == {i \in 1..Len(chain) :
                         /\ chain[i].timestamp <= now'
                         /\ now' - chain[i].timestamp < 120000}
            fired == IF "distressTriggers" \in DOMAIN stored
                     THEN HasTrigger(stored.distressTriggers, "ABNORMAL_HOPPING")
                     ELSE FALSE
        IN fired = (Cardinality(recent) >= 3) ]_vars

\* hopping fired on exactly three recent entries, the newest appended by this
\* very sample, while an older entry of the chain had aged out of the window
HoppingWitness ==
  /\ req.op = "cab_position"
  /\ LET c == req.cabId
         chain == traceChain[c]
         recent == {i \in 1..Len(chain) : now - chain[i].timestamp < 120000}
     IN /\ "distressTriggers" \in DOMAIN cabState[c]
        /\ HasTrigger(cabState[c].distressTriggers, "ABNORMAL_HOPPING")
        /\ Cardinality(recent) = 3
        /\ Len(chain) = 4
        /\ chain[4].timestamp = now

\* C28: every AUTO alert record has severity CRITICAL if its riskScore is at
\* least 75, HIGH if it is in 50..74 and MEDIUM otherwise, and its severity
\* is CRITICAL exactly when its trigger set contains RISK_CRITICAL.
SeverityMatchesRisk ==
  \A i \in 1..Len(alertBuffer) :
    alertBuffer[i].source = "AUTO" =>
      LET a == alertBuffer[i]
      IN /\ a.riskScore >= 75 => a.severity = "CRITICAL"
         /\ (a.riskScore >= 50 /\ a.riskScore <= 74) => a.severity = "HIGH"
         /\ a.riskScore < 50 => a.severity = "MEDIUM"
         /\ (a.severity = "CRITICAL") = HasTrigger(a.triggers, "RISK_CRITICAL")

\* the buffer holds detector records on both sides of the critical threshold
SeverityWitness ==
  \A sev \in {"CRITICAL", "HIGH"} :
    \E i \in 1..Len(alertBuffer) :
      /\ alertBuffer[i].source = "AUTO"
      /\ alertBuffer[i].severity = sev

\* the predicted_incoming notices of an outbox with the given type
NoticesOf(box, type) ==
  {i \in EmitsOf(box, "predicted_incoming") : box[i].data.type = type}

\* C29: a sample emits a predicted_incoming notice of type PREDICTED exactly
\* when the predictor returns a zone other than the cab's current owning
\* zone, once, to that predicted zone's room only; the notice of type ACTUAL
\* is emitted exactly when the owning zone changed, whatever the predictor
\* returned, so both can go out in the same update.
PredictedNoticeIffOtherZone ==
  [][ (steps' = steps + 1 /\ req'.op = "cab_position") =>
        LET c == req'.cabId
            stored == cabState'[c]
            next == predictNextStation(movementHistory'[c])
            predicted == NoticesOf(outbox', "PREDICTED")
            actual == NoticesOf(outbox', "ACTUAL")
            changed == IF cabState[c] = NO_STATE THEN FALSE
                       ELSE cabState[c].stationId # stored.stationId
        IN /\ (predicted # {}) = (next # NONE /\ next # stored.stationId)
           /\ Cardinality(predicted) <= 1
           /\ \A i \in predicted :
                /\ outbox'[i].to = <<"station", next>>
                /\ outbox'[i].data.cabId = c
           /\ (actual # {}) = changed ]_vars

\* one update that carries an ACTUAL notice for the zone entered and a
\* PREDICTED notice for a third zone
PredictedAndActualWitness ==
  /\ req.op = "cab_position"
  /\ \E i \in NoticesOf(outbox, "ACTUAL"), j \in NoticesOf(outbox, "PREDICTED") :
       /\ outbox[i].to = <<"station", cabState[req.cabId].stationId>>
       /\ outbox[j].to # outbox[i].to
       /\ outbox[j].data.cabId = req.cabId

\* C30: in every stored cab state predictedNextStationId is null or differs
\* from the state's stationId, and it is null while the cab's history holds
\* fewer than 2 samples.
PredictedNextNullOrOther ==
  \A c \in Cabs :
    cabState[c] # NO_STATE =>
      /\ \/ cabState[c].predictedNextStationId = NONE
         \/ cabState[c].predictedNextStationId # cabState[c].stationId
      /\ Len(movementHistory[c]) < 2 => cabState[c].predictedNextStationId = NONE

\* one cab stored after its first sample with no prediction and another
\* stored with a predicted zone other than its own
PredictedNextWitness ==
  /\ \E c \in Cabs :
       /\ cabState[c] # NO_STATE
       /\ Len(movementHistory[c]) = 1
       /\ cabState[c].predictedNextStationId = NONE
  /\ \E c \in Cabs :
       /\ cabState[c] # NO_STATE
       /\ cabState[c].predictedNextStationId \in Stations \ {cabState[c].stationId}

\* C31: eviction from the movement history is first in, first out: a sample
\* is appended at the end, and once 20 are stored the oldest one is dropped,
\* so after n samples of a cab its history is the last min(n, 20) samples in
\* arrival order.
HistoryEvictsOldest ==
  [][ (steps' = steps + 1 /\ req'.op = "cab_position") =>
        LET c == req'.cabId
            old == movementHistory[c]
            sample == [p |-> req'.p, ts |-> now']
        IN /\ movementHistory'[c] =
                IF Len(old) < 20 THEN old \o <<sample>>
                ELSE Tail(old) \o <<sample>>
           /\ Len(movementHistory'[c]) = Min(Len(old) + 1, 20)
           /\ \A d \in Cabs \ {c} : movementHistory'[d] = movementHistory[d] ]_vars

\* the 22nd sample of a cab has just pushed the second one out
HistoryEvictsOldestWitness ==
  /\ steps = 22
  /\ req.op = "cab_position"
  /\ Len(movementHistory[req.cabId]) = 20
  /\ Last(movementHistory[req.cabId]) = [p |-> req.p, ts |-> now]

\* the cabs named by the trace_chain_update events of an outbox
ChainUpdatesOf(box) == EmitsOf(box, "trace_chain_update")

\* C32: on join_station(S) the joining socket is sent, first, one
\* station_cabs snapshot listing exactly the cabs whose stored owning zone is
\* S, each once with its stored state, and after it one trace_chain_update,
\* carrying the cab's chain, for each of those cabs that has a trace chain
\* and for no other cab.
JoinSendsSnapshotThenChains ==
  [][ (steps' = steps + 1 /\ req'.op = "join_station") =>
        LET S == req'.stationId
            me == <<"socket", req'.socket>>
            inS == {c \in Cabs : IF cabState[c] = NO_STATE THEN FALSE
                                 ELSE cabState[c].stationId = S}
            snaps == EmitsOf(outbox', "station_cabs")
            list == outbox'[1].data
        IN /\ snaps = {1}
           /\ outbox'[1].to = me
           /\ {list[i].id : i \in 1..Len(list)} = inS
           /\ Len(list) = Cardinality(inS)
           /\ \A i \in 1..Len(list) :
                list[i] = Spread([id |-> list[i].id], cabState[list[i].id])
           /\ \A c \in Cabs :
                LET mine == {i \in ChainUpdatesOf(outbox') :
                               outbox'[i].data.cabId = c}
                IN /\ Cardinality(mine) =
                        IF c \in inS /\ traceChain[c] # <<>> THEN 1 ELSE 0
                   /\ \A i \in mine : /\ i > 1
                                      /\ outbox'[i].to = me
                                      /\ outbox'[i].data.chain = traceChain[c] ]_vars

\* a join of a station that owns one cab with a trace chain and one cab
\* without: the snapshot lists two cabs and one chain follows
JoinSnapshotWitness ==
  /\ req.op = "join_station"
  /\ Len(outbox) >= 2
  /\ outbox[1].ev = "station_cabs"
  /\ Len(outbox[1].data) = 2
  /\ Cardinality(ChainUpdatesOf(outbox)) = 1

\* the cabs whose stored owning zone is the station
OwnedBy(stationId) ==
  {c \in Cabs : IF cabState[c] = NO_STATE THEN FALSE
                ELSE cabState[c].stationId = stationId}

\* C33: a dashboard that has joined exactly one station S and applies
\* station_cabs, cab_update and cab_left in delivery order always holds
\* exactly the cabs whose server-side owning zone is S, however its join
\* interleaves with the position updates of the cabs.
DashboardShowsOwnedCabs ==
  \A sock \in DOMAIN dashCabs : \A S \in Stations :
    socketRooms[sock] = {<<"station", S>>} => dashCabs[sock] = OwnedBy(S)

\* C34: a subscriber is a member of at most one station room at a time:
\* after a socket that had joined station A joins station B it is no longer
\* in A's room, so the zone-scoped events addressed to A (cab_update,
\* cab_left, predicted_incoming) no longer reach it.
AtMostOneStationRoom ==
  \A sock \in DOMAIN socketRooms : Cardinality(socketRooms[sock]) <= 1

\* C35: for every cab whose trace chain is non-empty, the last entry names
\* the cab's stored owning zone, and no two consecutive entries of the chain
\* name the same zone.
TraceChainFollowsZone ==
  \A c \in Cabs :
    traceChain[c] # <<>> =>
      /\ cabState[c] # NO_STATE
      /\ Last(traceChain[c]).stationId = cabState[c].stationId
      /\ \A i \in 2..Len(traceChain[c]) :
           traceChain[c][i - 1].stationId # traceChain[c][i].stationId

\* a cab first seen outside every radius whose chain has since recorded a
\* zone and the return to the zone it started in
TraceChainFollowsZoneWitness ==
  \E c \in Cabs :
    /\ Len(traceChain[c]) >= 2
    /\ Len(movementHistory[c]) > Len(traceChain[c])
    /\ movementHistory[c][1].p = 3
    /\ Last(traceChain[c]).stationId = getOwningStation(3).id

\* C36: after any sequence of getSocket and releaseSocket calls at most one
\* socket connection is open, a socket exists exactly when the reference
\* count is positive, and the reference count is never negative.
SingleSocketIffCounted ==
  /\ Cardinality(connections) <= 1
  /\ (socket # NO_SOCKET) = (refCount > 0)
  /\ refCount >= 0
  /\ connections = IF socket = NO_SOCKET THEN {} ELSE {socket}

\* one open connection shared by three holders of the socket
SingleSocketWitness ==
  /\ req.op = "getSocket"
  /\ refCount = 3
  /\ steps >= 5
  /\ Cardinality(connections) = 1

\* the components that have taken the shared socket and not released it
Holders ==
  (IF managerUser THEN 1 ELSE 0)
  + (IF policeDashboard.mounted THEN 1 ELSE 0)
  + (IF cabPage.mounted THEN 1 ELSE 0)

\* C37: a component that acquires the shared socket, uses it to join
\* stations, emit positions or register and remove listeners, and then
\* releases it leaves the reference count as it found it, so once every
\* component has released the socket the count is zero and the socket is
\* disconnected.
SocketReleasedByAllUsers ==
  Holders = 0 => (refCount = 0 /\ socket = NO_SOCKET /\ connections = {})

\* C38: in the cab client, a position outside the corridor pushed during an
\* ACTIVE trip leaves the trip's status ALERT, in memory and as persisted,
\* and every later push leaves it ALERT until the ride is ended.
AlertStatusSticks ==
  [][ (steps' = steps + 1 /\ req'.op = "pushCoord") =>
        LET was == cabPage.trip
            deviated == cabPage.corridor /\ was.status = "ACTIVE" /\ ~req'.inside
        IN (deviated \/ was.status = "ALERT") =>
             /\ cabPage'.trip.status = "ALERT"
             /\ savedTrip'.status = "ALERT" ]_vars

\* the EMERGENCY_EVENT packets the browser has emitted for a trip
EmergenciesOf(tripId) ==
  {i \in 1..Len(emitted) : /\ emitted[i].ev = "EMERGENCY_EVENT"
                           /\ emitted[i].tripId = tripId}

\* C39: the cab client emits at most one EMERGENCY_EVENT per ride, however
\* many pushed positions fall outside the corridor.
OneEmergencyPerRide ==
  \A i \in 1..Len(emitted) :
    emitted[i].ev = "EMERGENCY_EVENT" =>
      Cardinality(EmergenciesOf(emitted[i].tripId)) <= 1

====
